---- MODULE Spec2Model ----
(***************************************************************************)
(* Model of the book catalog tooling of the recsys repository:             *)
(*   - extract_with_complete_similar_network (extract-rows.py): repair of  *)
(*     the similar_books reference lists and the breadth-first closure of  *)
(*     the initial books over the repaired network;                        *)
(*   - deduplicate_books / process_letter_group: exact and fuzzy duplicate *)
(*     clustering of a catalog and the choice of the kept row per cluster; *)
(*   - normalize_title and title_similarity, called on their own;          *)
(*   - DescriptionOnlyRecommender (recommendation_system.py): loading,     *)
(*     prepare_vector_embeddings and get_recommendations;                  *)
(*   - deduplicate_books of enhanced-book-deduplication.py: the duplicate  *)
(*     groups of rows that share an author;                                *)
(*   - merge_book_csvs and verify_references (merge_books_script.py);      *)
(*   - recommend_for_user (recommendation-system.py): the rankings of the  *)
(*     books of a user combined into one;                                  *)
(*   - the handler of /api/recommend (server.py), serving several requests *)
(*     at the same time.                                                   *)
(***************************************************************************)
EXTENDS Integers, Sequences, FiniteSets, TLC

(***************************************************************************)
(* Bounds of the closure model.                                            *)
(***************************************************************************)
\* book identifiers are 1..NumIds; 0 stands for a missing / falsy book_id
NumIds == 2
\* number of records in the input JSON (len(data))
MaxBooks == 2
\* longest similar_books list of a record
MaxRefs == 1
\* number of rows of the catalog given to deduplicate_books
NumRows == 4
\* a title given to normalize_title is made of at most MaxTokens tokens
MaxTokens == 3
\* longest normalized title given to title_similarity
MaxTitleLen == 3
\* number of rows of the catalog loaded by the recommender
NumBooks == 3

VARIABLES
    \* ---- extract_with_complete_similar_network ----
    data,                       \* the loaded JSON records, in file order
    initial_count,              \* the initial_count argument
    books_by_id,                \* lookup dictionary book_id -> record
    similar_book_network,       \* book_id -> filtered similar_books list
    invalid_references_removed, \* counter of the filtering
    initial_books,              \* the seed list
    books_to_include,           \* visited set of the traversal
    books_to_process,           \* frontier deque of the traversal
    written,                    \* rows of the output CSV: book_id -> similar_books
    invalid_references,         \* counter of the final integrity check
    pc,                         \* position in extract_with_complete_similar_network
    \* ---- deduplicate_books ----
    df,                         \* the loaded rows: title and similar_books
    columns,                    \* df.columns
    title_column,               \* the title_column argument
    similarity_threshold,       \* the similarity_threshold argument, in hundredths
    prefer_highest_ratings,     \* the prefer_highest_ratings argument
    has_ratings_column,         \* ratings_column in df.columns
    ratings,                    \* the ratings_count cells read so far
    normalized_title,           \* the normalized_title column
    exact_duplicate_groups,     \* groups of rows with equal normalized titles
    letter_groups,              \* the tasks handed to the pool
    results,                    \* the groups returned by each task
    pending,                    \* the tasks not run yet
    all_duplicate_groups,       \* exact groups followed by the similar groups
    indices_to_keep,            \* the rows kept
    deduplicated_df,            \* the rows written to the output file
    dpc,                        \* position in deduplicate_books
    \* ---- normalize_title ----
    raw_title,                  \* the argument
    normalized,                 \* normalize_title(raw_title)
    renormalized,               \* normalize_title(normalized)
    npc,                        \* calls made so far
    \* ---- title_similarity ----
    first_title,                \* first argument
    second_title,               \* second argument
    similarity,                 \* title_similarity(first_title, second_title)
    reverse_similarity,         \* the same with the arguments exchanged
    spc,                        \* calls made so far
    \* ---- DescriptionOnlyRecommender ----
    books,                      \* self.df, the loaded rows
    similar_books_list,         \* the similar_books_list column of self.df
    book_id_mapping,            \* self.book_id_mapping
    text_matrix,                \* self.text_matrix, None until built
    sort_outcomes,              \* the orders the sort has produced, per column
    requested_book_id,          \* the book_id argument of the requests
    num_recommendations,        \* the num_recommendations argument
    recommendations,            \* what the last call gave back
    earlier_recommendations,    \* what the call before it gave back
    \* ---- deduplicate_books of enhanced-book-deduplication.py ----
    gated_df,                   \* df: the loaded rows and the columns added to them
    prefer_popular,             \* args.prefer_popular, passed as prefer_highest_ratings
    duplicate_groups,           \* the groups found, prefix by prefix
    gated_indices_to_keep,      \* indices_to_keep
    removed_count,              \* original_count - len(deduplicated_df)
    gpc,                        \* position in deduplicate_books
    \* ---- merge_book_csvs ----
    genre_files,                \* the rows of the genre files found, as read_csv gives them
    all_books,                  \* book_id -> the merged book
    book_references,            \* book_id -> set of the books it references
    merge_books_to_include,     \* books_to_include
    pending_references,         \* the references not yet included
    merged_csv,                 \* rows of all_books_merged_50k.csv: book_id -> similar_books text
    missing_references,         \* counter of verify_references
    total_references,           \* counter of verify_references
    mpc,                        \* position in merge_book_csvs
    \* ---- recommend_for_user ----
    book_recs,                  \* what get_recommendations gave for each book of user_books
    user_num_recommendations,   \* the num_recommendations argument
    result,                     \* the rows recommend_for_user gives back
    upc,                        \* whether recommend_for_user has run
    \* ---- server.py ----
    requests                    \* the requests to /api/recommend being served, each
                                \* with its parameters, its locals and its response

cvars == <<data, initial_count, books_by_id, similar_book_network,
           invalid_references_removed, initial_books, books_to_include,
           books_to_process, written, invalid_references, pc>>

dvars == <<df, columns, title_column, similarity_threshold, prefer_highest_ratings,
           has_ratings_column,
           ratings, normalized_title, exact_duplicate_groups, letter_groups, results,
           pending, all_duplicate_groups, indices_to_keep, deduplicated_df, dpc>>

nvars == <<raw_title, normalized, renormalized, npc>>

svars == <<first_title, second_title, similarity, reverse_similarity, spc>>

rvars == <<books, similar_books_list, book_id_mapping, text_matrix, sort_outcomes, requested_book_id,
           num_recommendations, recommendations, earlier_recommendations>>

gvars == <<gated_df, prefer_popular, duplicate_groups, gated_indices_to_keep,
           removed_count, gpc>>

mvars == <<genre_files, all_books, book_references, merge_books_to_include,
           pending_references, merged_csv, missing_references, total_references, mpc>>

uvars == <<book_recs, user_num_recommendations, result, upc>>

wvars == <<requests>>

\* the components modelled after the first five
ovars == <<gvars, mvars, uvars, wvars>>

\* the components modelled first
basevars == <<cvars, dvars, nvars, svars, rvars>>

vars == <<basevars, ovars>>

(***************************************************************************)
(* Generic helpers.                                                        *)
(***************************************************************************)
SeqsUpTo(S, n) == UNION {[1..k -> S] : k \in 0..n}

Range(s) == {s[i] : i \in 1..Len(s)}

EmptyMap == [x \in {} |-> x]

\* the function f with its values computed once and kept as a table
Tabulated(f) == f @@ EmptyMap

\* every ordering of a finite set as a list without repetition
Orderings(S) ==
    {q \in [1..Cardinality(S) -> S] :
        \A i, j \in 1..Cardinality(S) : q[i] = q[j] => i = j}

\* dict.get(key, [])
Get(d, key) == IF key \in DOMAIN d THEN d[key] ELSE <<>>

(***************************************************************************)
(* Text.  A string is a sequence of one-character strings.                 *)
(***************************************************************************)
LowerLetters ==
    <<"a", "b", "c", "d", "e", "f", "g", "h", "i", "j", "k", "l", "m",
      "n", "o", "p", "q", "r", "s", "t", "u", "v", "w", "x", "y", "z">>

UpperLetters ==
    <<"A", "B", "C", "D", "E", "F", "G", "H", "I", "J", "K", "L", "M",
      "N", "O", "P", "Q", "R", "S", "T", "U", "V", "W", "X", "Y", "Z">>

Digits == {"0", "1", "2", "3", "4", "5", "6", "7", "8", "9"}

\* \w of the regular expressions: letters, digits and the underscore
IsWordChar(c) == c \in Range(LowerLetters) \cup Range(UpperLetters) \cup Digits \cup {"_"}

\* \s of the regular expressions (the titles of the model hold no tab or newline)
IsSpace(c) == c = " "

\* str.lower() on one character
LowerChar(c) ==
    IF c \in Range(UpperLetters)
    THEN LowerLetters[CHOOSE i \in 1..Len(UpperLetters) : UpperLetters[i] = c]
    ELSE c

\* str.lower()
Lower(s) == [i \in 1..Len(s) |-> LowerChar(s[i])]

\* s[lo..hi] (1-based, inclusive); empty when lo > hi
Slice(s, lo, hi) == IF lo > hi THEN <<>> ELSE SubSeq(s, lo, hi)

\* whether the literal pat occurs in s at position i
OccursAt(s, pat, i) ==
    /\ i + Len(pat) - 1 <= Len(s)
    /\ \A k \in 1..Len(pat) : s[i + k - 1] = pat[k]

\* re.sub of a literal pattern by rep: leftmost non-overlapping occurrences
RECURSIVE SubLiteralFrom(_, _, _, _)
SubLiteralFrom(s, pat, rep, i) ==
    IF i > Len(s) THEN <<>>
    ELSE IF OccursAt(s, pat, i)
         THEN rep \o SubLiteralFrom(s, pat, rep, i + Len(pat))
         ELSE <<s[i]>> \o SubLiteralFrom(s, pat, rep, i + 1)

SubLiteral(s, pat, rep) == SubLiteralFrom(s, pat, rep, 1)

\* re.sub(r'\(.*?\)', '', title): from an opening parenthesis to the first
\* closing one after it, leftmost first
RECURSIVE RemoveParenthesizedFrom(_, _)
RemoveParenthesizedFrom(s, i) ==
    IF i > Len(s) THEN <<>>
    ELSE IF s[i] = "(" /\ \E j \in (i+1)..Len(s) : s[j] = ")"
         THEN LET j == CHOOSE k \in (i+1)..Len(s) :
                           /\ s[k] = ")"
                           /\ \A m \in (i+1)..(k-1) : s[m] # ")"
              IN  RemoveParenthesizedFrom(s, j + 1)
         ELSE <<s[i]>> \o RemoveParenthesizedFrom(s, i + 1)

RemoveParenthesized(s) == RemoveParenthesizedFrom(s, 1)

\* re.sub(r':.*$', '', title): everything from the first colon on
RemoveAfterColon(s) ==
    IF \E i \in 1..Len(s) : s[i] = ":"
    THEN LET i == CHOOSE k \in 1..Len(s) : s[k] = ":" /\ \A m \in 1..(k-1) : s[m] # ":"
         IN  Slice(s, 1, i - 1)
    ELSE s

\* the edition markers, in the order of the list
edition_patterns ==
    <<<<"i", "l", "l", "u", "s", "t", "r", "a", "t", "e", "d", " ", "e", "d", "i", "t", "i", "o", "n">>,
      <<"a", "u", "d", "i", "o", "b", "o", "o", "k">>,
      <<"k", "i", "n", "d", "l", "e", " ", "e", "d", "i", "t", "i", "o", "n">>,
      <<"p", "a", "p", "e", "r", "b", "a", "c", "k">>,
      <<"h", "a", "r", "d", "c", "o", "v", "e", "r">>,
      <<"e", "b", "o", "o", "k">>,
      <<"s", "p", "e", "c", "i", "a", "l", " ", "e", "d", "i", "t", "i", "o", "n">>,
      <<"c", "o", "l", "l", "e", "c", "t", "o", "r", "'", "s", " ", "e", "d", "i", "t", "i", "o", "n">>,
      <<"u", "n", "a", "b", "r", "i", "d", "g", "e", "d">>,
      <<"a", "b", "r", "i", "d", "g", "e", "d">>,
      <<"a", "n", "n", "i", "v", "e", "r", "s", "a", "r", "y", " ", "e", "d", "i", "t", "i", "o", "n">>,
      <<"r", "e", "v", "i", "s", "e", "d", " ", "e", "d", "i", "t", "i", "o", "n">>,
      <<"c", "o", "m", "p", "l", "e", "t", "e", " ", "e", "d", "i", "t", "i", "o", "n">>>>

RECURSIVE RemoveEditionMarkersFrom(_, _)
RemoveEditionMarkersFrom(s, k) ==
    IF k > Len(edition_patterns) THEN s
    ELSE RemoveEditionMarkersFrom(SubLiteral(s, edition_patterns[k], <<>>), k + 1)

\* for pattern in edition_patterns: title = re.sub(pattern, '', title)
\* ((?i) has no effect on the already lowered title)
RemoveEditionMarkers(s) == RemoveEditionMarkersFrom(s, 1)

\* re.sub(r'[^\w\s]', ' ', title)
PunctuationToSpace(s) ==
    [i \in 1..Len(s) |-> IF IsWordChar(s[i]) \/ IsSpace(s[i]) THEN s[i] ELSE " "]

\* the common words, in the order of the list
common_words ==
    <<<<"t", "h", "e">>,
      <<"a">>,
      <<"a", "n">>,
      <<"a", "n", "d">>,
      <<"o", "r">>,
      <<"b", "u", "t">>,
      <<"o", "f">>,
      <<"f", "o", "r">>,
      <<"i", "n">>,
      <<"o", "n">>,
      <<"b", "y">>,
      <<"t", "o">>,
      <<"w", "i", "t", "h">>>>

\* \bword\b matches at position i
WordAt(s, word, i) ==
    /\ OccursAt(s, word, i)
    /\ (i = 1 \/ ~IsWordChar(s[i - 1]))
    /\ (i + Len(word) > Len(s) \/ ~IsWordChar(s[i + Len(word)]))

\* re.sub(r'\b' + word + r'\b', ' ', title)
RECURSIVE SubWordFrom(_, _, _)
SubWordFrom(s, word, i) ==
    IF i > Len(s) THEN <<>>
    ELSE IF WordAt(s, word, i)
         THEN <<" ">> \o SubWordFrom(s, word, i + Len(word))
         ELSE <<s[i]>> \o SubWordFrom(s, word, i + 1)

RECURSIVE RemoveCommonWordsFrom(_, _)
RemoveCommonWordsFrom(s, k) ==
    IF k > Len(common_words) THEN s
    ELSE RemoveCommonWordsFrom(SubWordFrom(s, common_words[k], 1), k + 1)

RemoveCommonWords(s) == RemoveCommonWordsFrom(s, 1)

\* re.sub(r'\s+', ' ', title)
RECURSIVE CollapseSpacesFrom(_, _)
CollapseSpacesFrom(s, i) ==
    IF i > Len(s) THEN <<>>
    ELSE IF IsSpace(s[i])
         THEN IF i > 1 /\ IsSpace(s[i - 1])
              THEN CollapseSpacesFrom(s, i + 1)
              ELSE <<" ">> \o CollapseSpacesFrom(s, i + 1)
         ELSE <<s[i]>> \o CollapseSpacesFrom(s, i + 1)

CollapseSpaces(s) == CollapseSpacesFrom(s, 1)

\* str.strip()
Strip(s) ==
    IF \A i \in 1..Len(s) : IsSpace(s[i]) THEN <<>>
    ELSE LET lo == CHOOSE i \in 1..Len(s) :
                       ~IsSpace(s[i]) /\ \A m \in 1..(i-1) : IsSpace(s[m])
             hi == CHOOSE i \in 1..Len(s) :
                       ~IsSpace(s[i]) /\ \A m \in (i+1)..Len(s) : IsSpace(s[m])
         IN  Slice(s, lo, hi)

\* str.split(): the maximal runs of non-space characters, in order
RECURSIVE SplitFrom(_, _, _)
SplitFrom(s, i, cur) ==
    IF i > Len(s) THEN (IF cur = <<>> THEN <<>> ELSE <<cur>>)
    ELSE IF IsSpace(s[i])
         THEN (IF cur = <<>> THEN <<>> ELSE <<cur>>) \o SplitFrom(s, i + 1, <<>>)
         ELSE SplitFrom(s, i + 1, Append(cur, s[i]))

Split(s) == SplitFrom(s, 1, <<>>)

\* ' '.join(words)
RECURSIVE Join(_)
Join(words) ==
    IF words = <<>> THEN <<>>
    ELSE IF Len(words) = 1 THEN words[1]
    ELSE words[1] \o <<" ">> \o Join(Tail(words))

\* a missing title (NaN) is the value Missing; any other title is a string
Missing == <<"NaN">>

(***************************************************************************)
(* normalize_title, book-deduplication.py lines 13-47.                     *)
(***************************************************************************)
normalize_title(title) ==
    IF title = Missing THEN <<>>
    ELSE Strip(CollapseSpaces(RemoveCommonWords(PunctuationToSpace(
             RemoveEditionMarkers(RemoveAfterColon(RemoveParenthesized(
                 Lower(title))))))))

(***************************************************************************)
(* difflib.SequenceMatcher(None, a, b) on strings shorter than the         *)
(* autojunk limit: find_longest_match, get_matching_blocks and ratio.      *)
(***************************************************************************)
\* length of the common run of a from i and b from j, inside a[..ahi], b[..bhi]
RECURSIVE RunLength(_, _, _, _, _, _)
RunLength(a, b, i, j, ahi, bhi) ==
    IF i > ahi \/ j > bhi \/ a[i] # b[j] THEN 0
    ELSE 1 + RunLength(a, b, i + 1, j + 1, ahi, bhi)

Max(S) == CHOOSE x \in S : \A y \in S : y <= x

Min(S) == CHOOSE x \in S : \A y \in S : x <= y

\* find_longest_match(alo, ahi, blo, bhi): the longest matching block; among the
\* longest the one starting earliest in a, and among those earliest in b.
\* <<i, j, k>> with k = 0 when nothing matches.
find_longest_match(a, b, alo, ahi, blo, bhi) ==
    LET starts == (alo..ahi) \X (blo..bhi)
        len(p) == RunLength(a, b, p[1], p[2], ahi, bhi)
    IN  IF starts = {} THEN <<alo, blo, 0>>
        ELSE LET k == Max({len(p) : p \in starts})
             IN  IF k = 0 THEN <<alo, blo, 0>>
                 ELSE LET i == Min({p[1] : p \in {q \in starts : len(q) = k}})
                          j == Min({p[2] : p \in {q \in starts : q[1] = i /\ len(q) = k}})
                      IN  <<i, j, k>>

\* the total size of get_matching_blocks() between a[alo..ahi] and b[blo..bhi]
RECURSIVE MatchedSize(_, _, _, _, _, _)
MatchedSize(a, b, alo, ahi, blo, bhi) ==
    LET m == find_longest_match(a, b, alo, ahi, blo, bhi)
    IN  IF m[3] = 0 THEN 0
        ELSE m[3]
             + MatchedSize(a, b, alo, m[1] - 1, blo, m[2] - 1)
             + MatchedSize(a, b, m[1] + m[3], ahi, m[2] + m[3], bhi)

\* a fraction num/den, den > 0
Frac(n, d) == [num |-> n, den |-> d]

FracGE(x, y) == x.num * y.den >= y.num * x.den

FracEq(x, y) == x.num * y.den = y.num * x.den

\* SequenceMatcher(None, a, b).ratio() = 2.0 * matches / (len(a) + len(b)),
\* 1.0 when both are empty
SequenceRatio(a, b) ==
    IF Len(a) + Len(b) = 0 THEN Frac(1, 1)
    ELSE Frac(2 * MatchedSize(a, b, 1, Len(a), 1, Len(b)), Len(a) + Len(b))

(***************************************************************************)
(* title_similarity, book-deduplication.py lines 49-121.  The score is the *)
(* exact fraction of the weighted sum, in hundredths: the weights 0.35,    *)
(* 0.30, 0.15, 0.15, 0.05 are 35, 30, 15, 15, 5.                           *)
(***************************************************************************)
\* get_words: set(title.split())
get_words(title) == Range(Split(title))

\* Counter(title)[c]
CharCount(s, c) == Cardinality({i \in 1..Len(s) : s[i] = c})

RECURSIVE SumProducts(_, _, _)
SumProducts(S, a, b) ==
    IF S = {} THEN 0
    ELSE LET c == CHOOSE x \in S : TRUE
         IN  CharCount(a, c) * CharCount(b, c) + SumProducts(S \ {c}, a, b)

\* the first two words, joined: ' '.join(title.split()[:2])
FirstWords(title) ==
    LET w == Split(title) IN Join(Slice(w, 1, IF Len(w) < 2 THEN Len(w) ELSE 2))

\* lines 70-119: the weighted combination of the five scores, in hundredths
composite_similarity(title1, title2) ==
    LET seq == SequenceRatio(title1, title2)
        words1 == get_words(title1)
        words2 == get_words(title2)
        word == IF words1 = {} \/ words2 = {} THEN Frac(0, 1)
                ELSE Frac(Cardinality(words1 \cap words2),
                          Max({Cardinality(words1), Cardinality(words2)}))
        \* the dot product of the two frequency vectors, each divided by its sum
        char == Frac(SumProducts(Range(title1) \cup Range(title2), title1, title2),
                     Len(title1) * Len(title2))
        initial == SequenceRatio(FirstWords(title1), FirstWords(title2))
        max_len == Max({Len(title1), Len(title2)})
        len_diff == max_len - Min({Len(title1), Len(title2)})
        length_penalty == Frac(max_len + 1 - len_diff, max_len + 1)
        d == seq.den * word.den * char.den * initial.den * length_penalty.den
    IN  Frac(  35 * seq.num * (d \div seq.den)
             + 30 * word.num * (d \div word.den)
             + 15 * char.num * (d \div char.den)
             + 15 * initial.num * (d \div initial.den)
             + 5 * length_penalty.num * (d \div length_penalty.den),
             d)

\* faulty variant: identical titles are tested before empty ones
title_similarity_identical_first(title1, title2) ==
    IF title1 = title2 THEN Frac(100, 1)
    ELSE IF title1 = <<>> \/ title2 = <<>> THEN Frac(0, 1)
    ELSE composite_similarity(title1, title2)

\* title_similarity, lines 53-121, in hundredths: 0.0 when a title is empty
\* (lines 62-64), else 1.0 when the titles are equal (lines 66-68)
title_similarity(title1, title2) ==
    IF title1 = <<>> \/ title2 = <<>> THEN Frac(0, 1)
    ELSE IF title1 = title2 THEN Frac(100, 1)
    ELSE composite_similarity(title1, title2)

\* sim >= similarity_threshold, the threshold given in hundredths
ReachesThreshold(sim, threshold) == FracGE(sim, Frac(threshold, 1))

(***************************************************************************)
(* deduplicate_books and process_letter_group, book-deduplication.py.      *)
(* Rows are identified by their DataFrame index, here 1..NumRows.          *)
(***************************************************************************)
\* the titles a row of the input may carry
RawTitles ==
    { <<"D", "u", "n", "e">>,
      <<"d", "u", "n", "e", " ">>,
      <<"D", "u", "n", "e", "s">>,
      <<"E", "m", "m", "a">>,
      <<"T", "h", "e">> }

\* the titles of a catalog with two similar titles under each of two letters
PoolTitles ==
    { <<"D", "u", "n", "e">>,
      <<"D", "u", "n", "e", "s">>,
      <<"E", "m", "m", "a">>,
      <<"E", "m", "m", "a", "s">> }

\* the titles of a catalog with one letter and titles that are similar to
\* one another in part only
BlockTitles ==
    { <<"D", "u", "n">>,
      <<"D", "u", "n", "e">>,
      <<"D", "u", "n", "e", "s">>,
      <<"D", "u", "n", "k">> }

\* the titles of a catalog with rows that have no title left once normalized
\* (a missing title, a common word, a parenthesized text) among titled rows
UntitledTitles ==
    { Missing,
      <<"T", "h", "e">>,
      <<"(", "x", ")">>,
      <<"D", "u", "n", "e">>,
      <<"D", "u", "n", "e", "s">> }

\* every title of the model
ModelTitles == RawTitles \cup PoolTitles \cup BlockTitles \cup UntitledTitles

\* title_column='title_without_series', line 160
DefaultTitleColumn ==
    <<"t", "i", "t", "l", "e", "_", "w", "i", "t", "h", "o", "u", "t", "_", "s", "e", "r", "i", "e", "s">>

SimilarBooksName == <<"s", "i", "m", "i", "l", "a", "r", "_", "b", "o", "o", "k", "s">>

\* df.columns of an input (the ratings column apart, see has_ratings_column):
\* one text column followed by similar_books.  The text column is the configured
\* title column, a column of another name that contains 'title', or a column
\* whose name does not
ColumnLayouts ==
    { <<DefaultTitleColumn, SimilarBooksName>>,
      <<<<"T", "i", "t", "l", "e">>, SimilarBooksName>>,
      <<<<"n", "a", "m", "e">>, SimilarBooksName>> }

\* pat in s
Contains(s, pat) == \E i \in 1..Len(s) : OccursAt(s, pat, i)

\* line 201: [col for col in df.columns if 'title' in col.lower()]
TitleColumns(cols) ==
    SelectSeq(cols, LAMBDA col : Contains(Lower(col), <<"t", "i", "t", "l", "e">>))

\* similarity_threshold=0.8, in hundredths
DefaultThreshold == 80

\* the thresholds of the model: the default and a value of --similarity
Thresholds == {DefaultThreshold, 50}

\* a ratings_count cell: <<>> is NaN, <<v>> the number v
RatingCells == {<<>>, <<0>>, <<1>>}

Rows == 1..NumRows

\* code points order the characters a normalized title can start with
CodeOrder ==
    <<"0", "1", "2", "3", "4", "5", "6", "7", "8", "9", "_">> \o LowerLetters

CodeOf(c) == CHOOSE i \in 1..Len(CodeOrder) : CodeOrder[i] = c

\* sorted(S) for a set of row indices
RECURSIVE SortedIndices(_)
SortedIndices(S) ==
    IF S = {} THEN <<>> ELSE <<Min(S)>> \o SortedIndices(S \ {Min(S)})

\* df[title_column].apply(normalize_title): the function is evaluated once per
\* distinct title of the model
NormalizedTitleOf ==
    Tabulated([t \in ModelTitles |-> normalize_title(t)])

\* title_similarity on the normalized titles of the model, evaluated once per pair
SimilarityOf ==
    LET N == {NormalizedTitleOf[t] : t \in ModelTitles}
    IN  Tabulated([p \in N \X N |-> title_similarity(p[1], p[2])])

\* lines 219-232: one group per normalized title carried by more than one row,
\* each the ascending list of its rows; value_counts() orders the titles by
\* count, descending (equal counts: by first row)
RECURSIVE OrderGroups(_)
OrderGroups(G) ==
    IF G = {} THEN <<>>
    ELSE LET g == CHOOSE x \in G :
                      \A y \in G :
                          \/ Len(x) > Len(y)
                          \/ (Len(x) = Len(y) /\ x[1] <= y[1])
         IN  <<g>> \o OrderGroups(G \ {g})

ExactDuplicateGroups(titles) ==
    LET matches(t) == {i \in 1..Len(titles) : titles[i] = t}
        dup == {t \in Range(titles) : Cardinality(matches(t)) > 1}
    IN  OrderGroups({SortedIndices(matches(t)) : t \in dup})

\* the union of the groups of a list of groups
Members(groups) == UNION {Range(groups[g]) : g \in 1..Len(groups)}

\* line 236: x[0] if x and len(x) > 0 else ''
first_letter(title) == IF title = <<>> THEN <<>> ELSE <<title[1]>>

\* faulty variant: the rows of exact duplicate groups stay in the letter group
LetterRowsKeepExact(titles, letter, exact_groups) ==
    {i \in 1..Len(titles) : first_letter(titles[i]) = letter}

\* lines 246-257: the rows of a letter, without those of exact duplicate groups
LetterRows(titles, letter, exact_groups) ==
    {i \in 1..Len(titles) : first_letter(titles[i]) = letter} \ Members(exact_groups)

\* lines 239-262: the tasks of the pool, by ascending letter; a letter with at
\* most one row, before or after the exclusion, gives no task
RECURSIVE LetterGroupsOf(_, _, _)
LetterGroupsOf(letters, titles, exact_groups) ==
    IF letters = {} THEN <<>>
    ELSE LET l == CHOOSE x \in letters :
                      \A y \in letters : CodeOf(x[1]) <= CodeOf(y[1])
             all == {i \in 1..Len(titles) : first_letter(titles[i]) = l}
             rows == LetterRows(titles, l, exact_groups)
             task == IF Cardinality(all) <= 1 \/ Cardinality(rows) <= 1
                     THEN <<>>
                     ELSE <<[letter |-> l, indices |-> SortedIndices(rows)]>>
         IN  task \o LetterGroupsOf(letters \ {l}, titles, exact_groups)

LetterGroups(titles, exact_groups) ==
    LetterGroupsOf({first_letter(titles[i]) : i \in 1..Len(titles)} \ {<<>>},
                   titles, exact_groups)

\* any(idx in group for group in duplicate_groups)
InAnyGroup(idx, groups) == \E g \in 1..Len(groups) : idx \in Range(groups[g])

\* faulty variant: the rows already in a group are compared and taken again
CurrentGroupNoSkip(i, indices, titles, threshold, groups) ==
    <<indices[i]>> \o
    SelectSeq(Slice(indices, i + 1, Len(indices)),
              LAMBDA idx :
                  ReachesThreshold(
                      SimilarityOf[<<titles[indices[i]], titles[idx]>>],
                      threshold))

\* lines 139-152: the group opened by position i of the letter group
CurrentGroup(i, indices, titles, threshold, groups) ==
    <<indices[i]>> \o
    SelectSeq(Slice(indices, i + 1, Len(indices)),
              LAMBDA idx :
                  /\ ~InAnyGroup(idx, groups)
                  /\ ReachesThreshold(
                         SimilarityOf[<<titles[indices[i]], titles[idx]>>],
                         threshold))

\* lines 134-155: the loop over the positions of the letter group
RECURSIVE ProcessFrom(_, _, _, _, _)
ProcessFrom(i, indices, titles, threshold, groups) ==
    IF i > Len(indices) THEN groups
    ELSE IF InAnyGroup(indices[i], groups)
         THEN ProcessFrom(i + 1, indices, titles, threshold, groups)
         ELSE LET current_group == CurrentGroup(i, indices, titles, threshold, groups)
              IN  ProcessFrom(i + 1, indices, titles, threshold,
                              IF Len(current_group) > 1
                              THEN Append(groups, current_group)
                              ELSE groups)

\* process_letter_group, lines 123-157
process_letter_group(indices, titles, threshold) ==
    ProcessFrom(1, indices, titles, threshold, <<>>)

\* ratings.fillna(0)
FillNa(cell) == IF cell = <<>> THEN 0 ELSE cell[1]

\* the rating compared by idxmax, line 314
FilledRating(cell) == FillNa(cell)

\* faulty variant: the last row with the highest rating
IdxMaxLast(group, cells) ==
    LET best == Max({FilledRating(cells[group[k]]) : k \in 1..Len(group)})
    IN  group[Max({k \in 1..Len(group) : FilledRating(cells[group[k]]) = best})]

\* ratings.idxmax(): the first row of the group with the highest rating
IdxMax(group, cells) ==
    LET best == Max({FilledRating(cells[group[k]]) : k \in 1..Len(group)})
    IN  group[Min({k \in 1..Len(group) : FilledRating(cells[group[k]]) = best})]

\* lines 309-319: the row kept of one group
KeptOfGroup(group, cells, by_ratings) ==
    IF by_ratings THEN IdxMax(group, cells) ELSE group[1]

\* faulty variant: the rows of duplicate groups are not taken out first
IndicesToKeepAll(n, groups, cells, by_ratings) ==
    (1..n) \cup {KeptOfGroup(groups[g], cells, by_ratings) : g \in 1..Len(groups)}

\* lines 297-319
IndicesToKeep(n, groups, cells, by_ratings) ==
    ((1..n) \ Members(groups))
        \cup {KeptOfGroup(groups[g], cells, by_ratings) : g \in 1..Len(groups)}

\* faulty variant: the results are listed in the order the tasks finish
\* (imap_unordered instead of map)
StoreResultByCompletion(res, k, groups, not_run) ==
    [res EXCEPT ![Len(res) - Cardinality(not_run) + 1] = groups]

\* line 270: pool.map lists the result of a task at the position of the task
StoreResult(res, k, groups, not_run) == [res EXCEPT ![k] = groups]

\* lists of groups concatenated in order
RECURSIVE Concat(_)
Concat(lists) == IF lists = <<>> THEN <<>> ELSE Head(lists) \o Concat(Tail(lists))

(***************************************************************************)
(* Actions of deduplicate_books.                                           *)
(***************************************************************************)
\* the similar_books column of the model: every row lists the next row (the
\* last one the first), by row index; deduplicate_books never reads the column
SimilarBooksColumn == [i \in Rows |-> <<(i % NumRows) + 1>>]

DedupIdle ==
    /\ df = <<>>
    /\ columns = <<>>
    /\ title_column = <<>>
    /\ similarity_threshold = 0
    /\ prefer_highest_ratings = FALSE
    /\ has_ratings_column = FALSE
    /\ ratings = <<>>
    /\ normalized_title = <<>>
    /\ exact_duplicate_groups = <<>>
    /\ letter_groups = <<>>
    /\ results = <<>>
    /\ pending = {}
    /\ all_duplicate_groups = <<>>
    /\ indices_to_keep = {}
    /\ deduplicated_df = <<>>
    /\ dpc = "off"

\* lines 159-196: the arguments and the loaded DataFrame.  The field title of a
\* row is its cell under the text column of the layout
LoadedFrom(title_set, layouts) ==
    /\ \E titles \in [Rows -> title_set] :
           df = [i \in Rows |->
                    [title |-> titles[i], similar_books |-> SimilarBooksColumn[i]]]
    /\ columns \in layouts
    /\ title_column = DefaultTitleColumn
    /\ similarity_threshold \in Thresholds
    /\ prefer_highest_ratings \in BOOLEAN
    /\ has_ratings_column \in BOOLEAN
    /\ ratings = [i \in Rows |-> <<>>]
    /\ normalized_title = <<>>
    /\ exact_duplicate_groups = <<>>
    /\ letter_groups = <<>>
    /\ results = <<>>
    /\ pending = {}
    /\ all_duplicate_groups = <<>>
    /\ indices_to_keep = {}
    /\ deduplicated_df = <<>>
    /\ dpc = "load"

\* a catalog that has the configured title column
DedupInit == LoadedFrom(RawTitles, {<<DefaultTitleColumn, SimilarBooksName>>})

\* a catalog of any column layout
DedupInitLayouts == LoadedFrom(PoolTitles, ColumnLayouts)

\* a catalog with rows without a normalized title
DedupInitUntitled ==
    LoadedFrom(UntitledTitles, {<<DefaultTitleColumn, SimilarBooksName>>})

\* a catalog of one letter group
DedupInitBlock == LoadedFrom(BlockTitles, {<<DefaultTitleColumn, SimilarBooksName>>})

\* lines 198-207: the configured title column, else the first column whose name
\* contains 'title', else the error message and return
CheckTitleColumn ==
    /\ dpc = "load"
    /\ IF title_column \in Range(columns)
       THEN /\ title_column' = title_column
            /\ dpc' = "validate"
       ELSE IF TitleColumns(columns) # <<>>
            THEN /\ title_column' = TitleColumns(columns)[1]
                 /\ dpc' = "validate"
            ELSE /\ title_column' = title_column
                 /\ dpc' = "error"
    /\ UNCHANGED <<df, columns, similarity_threshold, prefer_highest_ratings,
                   has_ratings_column, ratings, normalized_title,
                   exact_duplicate_groups, letter_groups, results, pending,
                   all_duplicate_groups, indices_to_keep, deduplicated_df>>
    /\ UNCHANGED <<cvars, nvars, svars, rvars, ovars>>

\* lines 209-212: without a ratings column the first entry of a group is kept
CheckRatingsColumn ==
    /\ dpc = "validate"
    /\ prefer_highest_ratings' = (prefer_highest_ratings /\ has_ratings_column)
    /\ dpc' = "normalize"
    /\ UNCHANGED <<df, columns, title_column, similarity_threshold,
                   has_ratings_column, ratings,
                   normalized_title, exact_duplicate_groups, letter_groups, results,
                   pending, all_duplicate_groups, indices_to_keep, deduplicated_df>>
    /\ UNCHANGED <<cvars, nvars, svars, rvars, ovars>>

\* line 216
NormalizeTitles ==
    /\ dpc = "normalize"
    /\ normalized_title' = [i \in 1..Len(df) |-> NormalizedTitleOf[df[i].title]]
    /\ dpc' = "exact"
    /\ UNCHANGED <<df, columns, title_column, similarity_threshold,
                   prefer_highest_ratings,
                   has_ratings_column, ratings, exact_duplicate_groups, letter_groups,
                   results, pending, all_duplicate_groups, indices_to_keep,
                   deduplicated_df>>
    /\ UNCHANGED <<cvars, nvars, svars, rvars, ovars>>

\* lines 219-232
FindExactDuplicates ==
    /\ dpc = "exact"
    /\ exact_duplicate_groups' = ExactDuplicateGroups(normalized_title)
    /\ dpc' = "letters"
    /\ UNCHANGED <<df, columns, title_column, similarity_threshold,
                   prefer_highest_ratings,
                   has_ratings_column, ratings, normalized_title, letter_groups,
                   results, pending, all_duplicate_groups, indices_to_keep,
                   deduplicated_df>>
    /\ UNCHANGED <<cvars, nvars, svars, rvars, ovars>>

\* lines 236-270: the tasks are built and handed to the pool
GroupByFirstLetter ==
    /\ dpc = "letters"
    /\ letter_groups' = LetterGroups(normalized_title, exact_duplicate_groups)
    /\ results' = [k \in 1..Len(letter_groups') |-> <<>>]
    /\ pending' = 1..Len(letter_groups')
    /\ dpc' = "pool"
    /\ UNCHANGED <<df, columns, title_column, similarity_threshold,
                   prefer_highest_ratings,
                   has_ratings_column, ratings, normalized_title,
                   exact_duplicate_groups, all_duplicate_groups, indices_to_keep,
                   deduplicated_df>>
    /\ UNCHANGED <<cvars, nvars, svars, rvars, ovars>>

\* lines 123-157: a worker of the pool runs one task; the tasks run in any order
ProcessLetterGroup(k) ==
    /\ dpc = "pool"
    /\ k \in pending
    /\ results' = StoreResult(results, k,
                              process_letter_group(letter_groups[k].indices,
                                                   normalized_title,
                                                   similarity_threshold),
                              pending)
    /\ pending' = pending \ {k}
    /\ UNCHANGED <<df, columns, title_column, similarity_threshold,
                   prefer_highest_ratings,
                   has_ratings_column, ratings, normalized_title,
                   exact_duplicate_groups, letter_groups, all_duplicate_groups,
                   indices_to_keep, deduplicated_df, dpc>>
    /\ UNCHANGED <<cvars, nvars, svars, rvars, ovars>>

\* lines 270-278: pool.map returns the results in the order of the tasks
CollectResults ==
    /\ dpc = "pool"
    /\ pending = {}
    /\ all_duplicate_groups' = exact_duplicate_groups \o Concat(results)
    /\ dpc' = "remove"
    /\ UNCHANGED <<df, columns, title_column, similarity_threshold,
                   prefer_highest_ratings,
                   has_ratings_column, ratings, normalized_title,
                   exact_duplicate_groups, letter_groups, results, pending,
                   indices_to_keep, deduplicated_df>>
    /\ UNCHANGED <<cvars, nvars, svars, rvars, ovars>>

\* lines 296-330: the ratings_count cells of the rows of duplicate groups are
\* read (only when the highest rating decides), the rows to keep are chosen and
\* the deduplicated rows are written in index order
RemoveDuplicates ==
    /\ dpc = "remove"
    /\ LET by_ratings == prefer_highest_ratings /\ has_ratings_column
           read == IF by_ratings THEN Members(all_duplicate_groups) ELSE {}
       IN  /\ \E r \in [read -> RatingCells] :
                  ratings' = [i \in Rows |-> IF i \in read THEN r[i] ELSE <<>>]
           /\ indices_to_keep' =
                  IndicesToKeep(Len(df), all_duplicate_groups, ratings', by_ratings)
    /\ deduplicated_df' =
           LET kept == SortedIndices(indices_to_keep')
           IN  [k \in 1..Len(kept) |->
                   [index |-> kept[k], title |-> df[kept[k]].title,
                    similar_books |-> df[kept[k]].similar_books]]
    /\ dpc' = "done"
    /\ UNCHANGED <<df, columns, title_column, similarity_threshold,
                   prefer_highest_ratings,
                   has_ratings_column, normalized_title, exact_duplicate_groups,
                   letter_groups, results, pending, all_duplicate_groups>>
    /\ UNCHANGED <<cvars, nvars, svars, rvars, ovars>>

DedupNext ==
    \/ CheckTitleColumn
    \/ CheckRatingsColumn
    \/ NormalizeTitles
    \/ FindExactDuplicates
    \/ GroupByFirstLetter
    \/ \E k \in 1..NumRows : ProcessLetterGroup(k)
    \/ CollectResults
    \/ RemoveDuplicates

ClosureIdle ==
    /\ data = <<>>
    /\ initial_count = 0
    /\ books_by_id = EmptyMap
    /\ similar_book_network = EmptyMap
    /\ invalid_references_removed = 0
    /\ initial_books = <<>>
    /\ books_to_include = {}
    /\ books_to_process = <<>>
    /\ written = EmptyMap
    /\ invalid_references = 0
    /\ pc = "off"

(***************************************************************************)
(* normalize_title and title_similarity called on their own.               *)
(***************************************************************************)
\* the pieces a title given to normalize_title is made of
TitleTokens ==
    { <<"D", "u", "n", "e">>, <<"T", "h", "e">>, <<" ">>, <<"-">>, <<":">>, <<"(">>, <<")">>,
      <<"K", "i", "n", "d", "l", "e">>,
      <<"E", "d", "i", "t", "i", "o", "n">> }

\* the titles given to normalize_title: a missing cell or up to MaxTokens tokens
TitleInputs ==
    {Missing} \cup {Concat(ts) : ts \in SeqsUpTo(TitleTokens, MaxTokens)}

NormalizeIdle ==
    /\ raw_title = <<>>
    /\ normalized = <<>>
    /\ renormalized = <<>>
    /\ npc = "off"

NormalizeInit ==
    /\ raw_title \in TitleInputs
    /\ normalized = <<>>
    /\ renormalized = <<>>
    /\ npc = "call"

\* line 216: normalize_title applied to a title
Normalize ==
    /\ npc = "call"
    /\ normalized' = normalize_title(raw_title)
    /\ npc' = "again"
    /\ UNCHANGED <<raw_title, renormalized>>
    /\ UNCHANGED <<cvars, dvars, svars, rvars, ovars>>

\* normalize_title applied to its own result
NormalizeAgain ==
    /\ npc = "again"
    /\ renormalized' = normalize_title(normalized)
    /\ npc' = "done"
    /\ UNCHANGED <<raw_title, normalized>>
    /\ UNCHANGED <<cvars, dvars, svars, rvars, ovars>>

NormalizeNext == Normalize \/ NormalizeAgain

\* the characters of the normalized titles given to title_similarity
TitleAlphabet == {"x", "y", " "}

\* the normalized titles of at most MaxTitleLen characters: the strings that
\* normalize_title returns unchanged
NormalizedTitles ==
    {t \in SeqsUpTo(TitleAlphabet, MaxTitleLen) : normalize_title(t) = t}

SimilarityIdle ==
    /\ first_title = <<>>
    /\ second_title = <<>>
    /\ similarity = Frac(0, 1)
    /\ reverse_similarity = Frac(0, 1)
    /\ spc = "off"

SimilarityInit ==
    /\ first_title \in NormalizedTitles
    /\ second_title \in NormalizedTitles
    /\ similarity = Frac(0, 1)
    /\ reverse_similarity = Frac(0, 1)
    /\ spc = "call"

\* line 146: title_similarity(title, other_title)
Similarity ==
    /\ spc = "call"
    /\ similarity' = title_similarity(first_title, second_title)
    /\ spc' = "reverse"
    /\ UNCHANGED <<first_title, second_title, reverse_similarity>>
    /\ UNCHANGED <<cvars, dvars, nvars, rvars, ovars>>

\* title_similarity with the arguments exchanged
ReverseSimilarity ==
    /\ spc = "reverse"
    /\ reverse_similarity' = title_similarity(second_title, first_title)
    /\ spc' = "done"
    /\ UNCHANGED <<first_title, second_title, similarity>>
    /\ UNCHANGED <<cvars, dvars, nvars, rvars, ovars>>

SimilarityNext == Similarity \/ ReverseSimilarity

(***************************************************************************)
(* DescriptionOnlyRecommender, recommendation_system.py: the loaded        *)
(* catalog, the content vectors and get_recommendations.  The              *)
(* BalancedBookRecommender of recommendation-system.py filters, scores and *)
(* sorts in the same way.  A row is identified by its index 1..NumBooks,   *)
(* and the book_id of row i is the integer i.                              *)
(***************************************************************************)
\* the decimal digit of a number below ten
DigitChar(n) == CodeOrder[n + 1]

\* an identifier as Python holds it: the integer or the string of these digits;
\* an integer and a string never compare equal
IntId(text) == [kind |-> "int", text |-> text]

StrId(text) == [kind |-> "str", text |-> text]

\* str.split(sep): the pieces between the separators, empty pieces included
RECURSIVE SplitOn(_, _, _, _)
SplitOn(s, sep, i, cur) ==
    IF i > Len(s) THEN <<cur>>
    ELSE IF s[i] = sep THEN <<cur>> \o SplitOn(s, sep, i + 1, <<>>)
    ELSE SplitOn(s, sep, i + 1, Append(cur, s[i]))

\* a JSON number of the model: decimal digits without a leading zero
IsJsonNumber(s) ==
    /\ s # <<>>
    /\ \A i \in 1..Len(s) : s[i] \in Digits
    /\ (Len(s) = 1 \/ s[1] # "0")

\* a JSON string of the model: quotes around characters that are not quotes
IsJsonString(s) ==
    /\ Len(s) >= 2
    /\ s[1] = "\"" /\ s[Len(s)] = "\""
    /\ \A i \in 2..(Len(s) - 1) : s[i] \notin {"\"", "\\"}

\* the elements of the text of a JSON array, each without the spaces around it
JsonElements(s) ==
    LET inner == Strip(Slice(s, 2, Len(s) - 1))
        pieces == SplitOn(inner, ",", 1, <<>>)
    IN  IF inner = <<>> THEN <<>>
        ELSE [k \in 1..Len(pieces) |-> Strip(pieces[k])]

\* whether json.loads accepts the text as an array of numbers and strings
JsonArrayLoads(s) ==
    \A k \in 1..Len(JsonElements(s)) :
        IsJsonNumber(JsonElements(s)[k]) \/ IsJsonString(JsonElements(s)[k])

\* json.loads of such a text: numbers become integers, strings stay strings
json_loads(s) ==
    LET e == JsonElements(s)
    IN  [k \in 1..Len(e) |->
            IF IsJsonNumber(e[k]) THEN IntId(e[k])
            ELSE StrId(Slice(e[k], 2, Len(e[k]) - 1))]

\* _parse_similar_books, lines 222-251: a JSON array, else the pieces of a
\* comma-separated text, else the single value; strings unless JSON numbers
parse_similar_books(similar_books_str) ==
    IF similar_books_str = Missing \/ similar_books_str = <<>> THEN <<>>
    ELSE IF /\ similar_books_str[1] = "["
            /\ similar_books_str[Len(similar_books_str)] = "]"
            /\ JsonArrayLoads(similar_books_str)
         THEN json_loads(similar_books_str)
    ELSE IF "," \in Range(similar_books_str)
         THEN LET pieces == SplitOn(similar_books_str, ",", 1, <<>>)
                  kept == SelectSeq(pieces, LAMBDA p : Strip(p) # <<>>)
              IN  [k \in 1..Len(kept) |-> StrId(Strip(kept[k]))]
    ELSE <<StrId(Strip(similar_books_str))>>

\* the similar_books cells of the model: missing, the second row as a JSON
\* number, as a JSON string and as plain text, and a comma-separated pair
SimilarBooksCells ==
    { Missing,
      <<"[", "2", "]">>,
      <<"[", "\"", "2", "\"", "]">>,
      <<"2">>,
      <<"2", ",", " ", "4">> }

\* the rows a catalog is made of: title_without_series, the author_id values
\* of the authors cell, ratings_count, the one term of the description (empty
\* when there is none) and the flag of the one genre column
CatalogRows ==
    { [title_without_series |-> <<"D", "u", "n", "e">>, authors |-> {"a1"},
       ratings_count |-> 40, clean_description |-> "sand", is_fiction |-> 1],
      [title_without_series |-> <<"d", "u", "n", "e">>, authors |-> {},
       ratings_count |-> 30, clean_description |-> "", is_fiction |-> 0],
      [title_without_series |-> <<"D", "u", "n", "e", " ", "I", "I">>,
       authors |-> {"a1"},
       ratings_count |-> 30, clean_description |-> "spice", is_fiction |-> 0],
      [title_without_series |-> <<"D", "u", "n", "e", " ", "I", "I">>,
       authors |-> {"a2"},
       ratings_count |-> 40, clean_description |-> "sand", is_fiction |-> 1],
      [title_without_series |-> <<"E", "m", "m", "a">>, authors |-> {"a2"},
       ratings_count |-> 30, clean_description |-> "", is_fiction |-> 0] }

\* the terms of the descriptions
Terms == {"sand", "spice"}

\* the vocabularies TfidfVectorizer.fit can end with (lines 177-196): the terms
\* kept depend on the sample drawn by np.random.choice and on the pruning by
\* min_df, max_df and max_features
Vocabularies == (SUBSET Terms) \ {{}}

\* text_matrix is None
None == <<>>

\* lines 198-199: the row of a description is the unit vector of its term when
\* the vocabulary has the term, and the zero vector otherwise
Embeddings(rows, vocabulary) ==
    [i \in 1..Len(rows) |->
        IF rows[i].clean_description \in vocabulary
        THEN rows[i].clean_description ELSE ""]

\* cosine_similarity of two rows of text_matrix, in hundredths
cosine_similarity(u, v) == IF u = v /\ u # "" THEN 100 ELSE 0

\* faulty variant: the vectors are built again on every call
NeedsEmbeddingsAlways(matrix) == TRUE

\* line 285: if self.text_matrix is None
NeedsEmbeddings(matrix) == matrix = None

\* _create_basic_id_mappings, lines 144-160: int(book_id) -> book_id for the
\* rows whose book_id is a string of digits
BookIdMapping(ids) ==
    [k \in {IntId(i.text) : i \in {x \in ids : x.kind = "str"}} |-> StrId(k.text)]

\* _normalize_book_id, lines 205-207
normalize_book_id(mapping, id) == IF id \in DOMAIN mapping THEN mapping[id] ELSE id

\* the book_id of a row
BookIdOf(i) == IntId(<<DigitChar(i)>>)

\* find_book(book_id=...), lines 253-271: the index of the row with this
\* book_id (0 when there is none)
find_book(rows, id) ==
    IF \E i \in 1..Len(rows) : BookIdOf(i) = id
    THEN CHOOSE i \in 1..Len(rows) : BookIdOf(i) = id
    ELSE 0

\* faulty variant: only equal titles count
is_likely_duplicate_equal_only(source, row) ==
    Lower(source.title_without_series) = Lower(row.title_without_series)

\* is_likely_duplicate, lines 306-324
is_likely_duplicate(source, row) ==
    LET row_title == Lower(row.title_without_series)
        source_title_lower == Lower(source.title_without_series)
        title_similar == \/ Contains(row_title, source_title_lower)
                         \/ Contains(source_title_lower, row_title)
        authors_match == source.authors \cap row.authors # {}
    IN  \/ source_title_lower = row_title
        \/ (title_similar /\ authors_match)

\* _parse_similar_books on the cells of the model, evaluated once per cell
ParsedCells ==
    Tabulated([cell \in SimilarBooksCells |-> parse_similar_books(cell)])

\* is_likely_duplicate on the rows of the model, evaluated once per pair
LikelyDuplicates ==
    Tabulated([p \in CatalogRows \X CatalogRows |->
                  is_likely_duplicate(p[1], p[2])])

\* lines 328-331: the rows other than the source and its likely duplicates
FilteredIndices(rows, book_idx) ==
    {i \in 1..Len(rows) :
        /\ BookIdOf(i) # BookIdOf(book_idx)
        /\ ~LikelyDuplicates[<<rows[book_idx], rows[i]>>]}

\* lines 334-350, in hundredths
similar_books_score(mapping, similar_ids, x) ==
    LET similar_id_set == {normalize_book_id(mapping, similar_ids[k]) :
                               k \in 1..Len(similar_ids)}
    IN  IF Len(similar_ids) > 0
           /\ (x \in similar_id_set \/ normalize_book_id(mapping, x) \in similar_id_set)
        THEN 100 ELSE 0

\* lines 352-371, in hundredths
vector_score(rows, matrix, book_idx, i) ==
    IF rows[book_idx].clean_description # ""
    THEN cosine_similarity(matrix[book_idx], matrix[i])
    ELSE 0

\* calculate_genre_match, lines 375-384, in hundredths, for the one genre column
calculate_genre_match(book, row) ==
    LET score == IF book.is_fiction = 1 /\ row.is_fiction = 1 THEN 1 ELSE 0
        source_genres == book.is_fiction
    IN  IF source_genres > 0 THEN (100 * score) \div source_genres ELSE 0

\* lines 35-37: the weights, in hundredths
similar_books_weight == 10

vector_embedding_weight == 70

genre_weight == 20

\* lines 389-393, in ten-thousandths
final_score(s, v, g) ==
    s * similar_books_weight + v * vector_embedding_weight + g * genre_weight

\* the rows of filtered_df with their scores
ScoredRow(rows, lists, mapping, matrix, book_idx, i) ==
    LET s == similar_books_score(mapping, lists[book_idx], BookIdOf(i))
        v == vector_score(rows, matrix, book_idx, i)
        g == calculate_genre_match(rows[book_idx], rows[i])
    IN  [index |-> i, similar_books_score |-> s, vector_score |-> v,
         genre_score |-> g, final_score |-> final_score(s, v, g)]

\* sort_values('final_score', ascending=False), line 396: the orders of the
\* rows that are descending in final_score; the order of rows with the same
\* score is left to the sorting algorithm
SortedOrders(frame) ==
    {q \in Orderings(DOMAIN frame) :
        \A a, b \in 1..Len(q) : a < b => frame[q[a]] >= frame[q[b]]}

\* .head(num_recommendations), line 396, for num_recommendations >= 0
head(order, n) == Slice(order, 1, Min({n, Len(order)}))

\* the values of num_recommendations: none, one, and the default of line 273
NumRecommendations == {0, 1, 10}

\* what a call has given back: nothing yet, a DataFrame (its rows in order), or
\* an exception
NoCall == [called |-> FALSE, raised |-> "", rows |-> <<>>]

Returned(result_rows) == [called |-> TRUE, raised |-> "", rows |-> result_rows]

Raised(exception) == [called |-> TRUE, raised |-> exception, rows |-> <<>>]

RecommenderIdle ==
    /\ books = <<>>
    /\ similar_books_list = <<>>
    /\ book_id_mapping = EmptyMap
    /\ text_matrix = None
    /\ sort_outcomes = {}
    /\ requested_book_id = IntId(<<>>)
    /\ num_recommendations = 0
    /\ recommendations = NoCall
    /\ earlier_recommendations = NoCall

\* load_data, lines 49-100: the rows, the similar_books cells parsed into
\* similar_books_list (line 78) and the identifier mapping (line 86).  The
\* requests of the model have the first row as their source, so the
\* similar_books cell of the other rows, which is never read, is missing
RecommenderInit ==
    /\ books \in [1..NumBooks -> CatalogRows]
    /\ \E cell \in SimilarBooksCells :
           similar_books_list =
               [i \in 1..NumBooks |-> ParsedCells[IF i = 1 THEN cell ELSE Missing]]
    /\ book_id_mapping = BookIdMapping({BookIdOf(i) : i \in 1..NumBooks})
    /\ text_matrix = None
    /\ sort_outcomes = {}
    /\ requested_book_id \in {BookIdOf(1), BookIdOf(NumBooks + 1)}
    /\ num_recommendations \in NumRecommendations
    /\ recommendations = NoCall
    /\ earlier_recommendations = NoCall

\* prepare_vector_embeddings, lines 162-203, called before the first request
PrepareVectorEmbeddings ==
    /\ text_matrix = None
    /\ \E vocabulary \in Vocabularies :
           text_matrix' = Embeddings(books, vocabulary)
    /\ UNCHANGED <<books, similar_books_list, book_id_mapping, sort_outcomes, requested_book_id,
                   num_recommendations, recommendations, earlier_recommendations>>
    /\ UNCHANGED <<cvars, dvars, nvars, svars, ovars>>

\* get_recommendations(book_id=requested_book_id,
\* num_recommendations=num_recommendations), lines 273-431.  The vectors are
\* built first when there are none (lines 285-287).  An unknown book gives an
\* empty DataFrame (lines 296-298).  cosine_similarity raises ValueError when
\* filtered_df has no row (line 366), which happens only when the source has a
\* description (line 359).  The sorting algorithm orders the rows of equal
\* final_score in a way of its own, the same way each time it is given the
\* same column.
GetRecommendations ==
    /\ \E vocabulary \in Vocabularies :
           text_matrix' = IF NeedsEmbeddings(text_matrix)
                          THEN Embeddings(books, vocabulary)
                          ELSE text_matrix
    /\ LET book_idx == find_book(books, requested_book_id)
       IN  IF book_idx = 0
           THEN /\ recommendations' = Returned(<<>>)
                /\ UNCHANGED sort_outcomes
           ELSE \E filtered \in {FilteredIndices(books, book_idx)} :
                    IF books[book_idx].clean_description # "" /\ filtered = {}
                    THEN /\ recommendations' = Raised("ValueError")
                         /\ UNCHANGED sort_outcomes
                    ELSE \E scored \in
                                {Tabulated([i \in filtered |->
                                     ScoredRow(books, similar_books_list,
                                               book_id_mapping, text_matrix',
                                               book_idx, i)])} :
                         \E frame \in
                                {Tabulated([i \in filtered |-> scored[i].final_score])} :
                         \E order \in SortedOrders(frame) :
                             /\ \A o \in sort_outcomes :
                                    o.frame = frame => o.order = order
                             /\ sort_outcomes' =
                                    sort_outcomes
                                        \cup {[frame |-> frame, order |-> order]}
                             /\ recommendations' =
                                    LET top == head(order, num_recommendations)
                                    IN  Returned([k \in 1..Len(top) |-> scored[top[k]]])
    /\ earlier_recommendations' = recommendations
    /\ UNCHANGED <<books, similar_books_list, book_id_mapping, requested_book_id,
                   num_recommendations>>
    /\ UNCHANGED <<cvars, dvars, nvars, svars, ovars>>

RecommenderNext == PrepareVectorEmbeddings \/ GetRecommendations

BookIds == 1..NumIds

\* a JSON record: book_id (0 when absent or falsy) and its similar_books list;
\* a record without book_id never enters books_by_id, so its list is never read
\* and is left empty here
Records ==
    [book_id : BookIds, similar_books : SeqsUpTo(BookIds, MaxRefs)]
        \cup {[book_id |-> 0, similar_books |-> <<>>]}

(***************************************************************************)
(* lines 56-73: the value of the similar_books key of a record and its     *)
(* parsing.  A Python value is its type (kind) and what it holds (value).  *)
(***************************************************************************)
ListValue(ids) == [kind |-> "list", value |-> ids]

NoneValue == [kind |-> "NoneType", value |-> <<>>]

IntValue == [kind |-> "int", value |-> <<>>]

DictValue == [kind |-> "dict", value |-> <<>>]

StrValue(text) == [kind |-> "str", value |-> text]

\* the list of the pieces of a text: strings, none of which is a book_id of
\* books_by_id
PiecesValue(pieces) == [kind |-> "list of str", value |-> pieces]

JSONDecodeError == [kind |-> "JSONDecodeError", value |-> <<>>]

\* the values of similar_books that are not lists: null, a number, and the
\* texts abc (not JSON), 5, null and {} (JSON, but not a list)
OtherSimilarBooksData ==
    { NoneValue, IntValue,
      StrValue(<<"a", "b", "c">>), StrValue(<<"5">>),
      StrValue(<<"n", "u", "l", "l">>), StrValue(<<"{", "}">>) }

\* a JSON record whose similar_books is such a value
OtherRecords == [book_id : BookIds, similar_books_data : OtherSimilarBooksData]

\* line 57: similar_books_data = book.get('similar_books', [])
similar_books_data(book) ==
    IF "similar_books_data" \in DOMAIN book
    THEN book.similar_books_data
    ELSE ListValue(book.similar_books)

\* json.loads on the texts of the model, which hold no array and no string
json_loads_text(text) ==
    IF text = <<"n", "u", "l", "l">> THEN NoneValue
    ELSE IF IsJsonNumber(text) THEN IntValue
    ELSE IF text = <<"{", "}">> THEN DictValue
    ELSE JSONDecodeError

\* str.replace(old, new) for one-character old
ReplaceChar(text, old, new) ==
    Concat([i \in 1..Len(text) |-> IF text[i] = old THEN new ELSE <<text[i]>>])

\* str.strip('[]')
RECURSIVE StripBrackets(_)
StripBrackets(text) ==
    IF text # <<>> /\ text[1] \in {"[", "]"} THEN StripBrackets(Tail(text))
    ELSE IF text # <<>> /\ text[Len(text)] \in {"[", "]"}
         THEN StripBrackets(Slice(text, 1, Len(text) - 1))
    ELSE text

\* lines 61-73: a text goes through json.loads, then through json.loads with
\* the single quotes made double, then through split(','); any other value is
\* taken as it is
parse_similar_books_data(data_value) ==
    IF data_value.kind # "str" THEN data_value
    ELSE IF json_loads_text(data_value.value) # JSONDecodeError
         THEN json_loads_text(data_value.value)
    ELSE LET quoted == ReplaceChar(data_value.value, "'", <<"\"">>)
         IN  IF json_loads_text(quoted) # JSONDecodeError
             THEN json_loads_text(quoted)
             ELSE LET bare == ReplaceChar(ReplaceChar(StripBrackets(quoted),
                                                      "\"", <<>>), "'", <<>>)
                      pieces == SplitOn(bare, ",", 1, <<>>)
                  IN  PiecesValue(SelectSeq([k \in 1..Len(pieces) |-> Strip(pieces[k])],
                                            LAMBDA piece : piece # <<>>))

\* the parsed similar_books of a record
similar_books_of(book) == parse_similar_books_data(similar_books_data(book))

\* line 76: len(similar_books) raises TypeError for None and for a number
LenRaises(book) == similar_books_of(book).kind \in {"NoneType", "int"}

\* line 76: original_count
original_count(book) == Len(similar_books_of(book).value)

\* the identifiers line 77 goes through: those of a list; the pieces of a
\* text are no identifiers of books_by_id and an empty dict has no key
SimilarIds(book) ==
    IF similar_books_of(book).kind = "list" THEN similar_books_of(book).value
    ELSE <<>>

(***************************************************************************)
(* extract_with_complete_similar_network, lines 42-82: lookup dictionary   *)
(* and the repaired network.                                               *)
(***************************************************************************)
\* books_by_id[book_id] = book for every record with a truthy book_id; a later
\* record with the same book_id overwrites an earlier one
BooksById(d) ==
    LET ids == {d[i].book_id : i \in {j \in 1..Len(d) : d[j].book_id # 0}}
        Last(id) == CHOOSE i \in 1..Len(d) :
                        /\ d[i].book_id = id
                        /\ \A j \in (i+1)..Len(d) : d[j].book_id # id
    IN  [id \in ids |-> d[Last(id)]]

\* faulty variant: the filter keeps every reference (no existence test)
ValidSimilarBooksKeepAll(similar_books, known) == similar_books

\* valid_similar_books = [s_id for s_id in similar_books if s_id in books_by_id]
ValidSimilarBooks(similar_books, known) ==
    SelectSeq(similar_books, LAMBDA s : s \in known)

\* faulty variant: the repair also drops a book's reference to itself
RepairedListDropSelf(book_id, similar_books, known) ==
    SelectSeq(similar_books, LAMBDA s : s \in known /\ s # book_id)

\* the list stored in similar_book_network[book_id]
RepairedList(book_id, similar_books, known) ==
    ValidSimilarBooks(similar_books, known)

BuildNetwork(byid) ==
    [id \in DOMAIN byid |->
        RepairedList(id, SimilarIds(byid[id]), DOMAIN byid)]

RECURSIVE SumOver(_, _)
SumOver(f, S) ==
    IF S = {} THEN 0
    ELSE LET x == CHOOSE y \in S : TRUE IN f[x] + SumOver(f, S \ {x})

\* invalid_references_removed += original_count - len(valid_similar_books)
CountRemoved(byid, network) ==
    SumOver([id \in DOMAIN byid |->
                original_count(byid[id]) - Len(network[id])], DOMAIN byid)

(***************************************************************************)
(* lines 84-95: the first initial_count truthy book_ids in file order.     *)
(***************************************************************************)
RECURSIVE SelectInitial(_, _, _, _)
SelectInitial(d, i, count, limit) ==
    IF i > Len(d) THEN <<>>
    ELSE LET take == d[i].book_id # 0 /\ count < limit
             count2 == IF take THEN count + 1 ELSE count
             taken == IF take THEN <<d[i].book_id>> ELSE <<>>
         IN  IF count2 >= limit THEN taken
             ELSE taken \o SelectInitial(d, i + 1, count2, limit)

(***************************************************************************)
(* lines 105-119: one iteration of the traversal loop.                     *)
(***************************************************************************)
\* faulty variant: the popped book is not recorded as processed
MarkIncludedForget(included, current) == included

\* books_to_include.add(current_book_id)
MarkIncluded(included, current) == included \cup {current}

\* faulty variant: the similar books are not followed
EnqueueNone(queue, similar, included) == queue

\* faulty variant: the frontier is overwritten by the similar books instead of extended
EnqueueReplace(queue, similar, included) ==
    SelectSeq(similar, LAMBDA s : s \notin included)

\* for similar_id in network.get(current, []):
\*     if similar_id not in books_to_include: books_to_process.append(similar_id)
Enqueue(queue, similar, included) ==
    queue \o SelectSeq(similar, LAMBDA s : s \notin included)

\* the seeds and every reference can each be appended once: the deque of the
\* code never grows beyond this, the guard only keeps a broken variant finite
QueueCap == MaxBooks * (MaxRefs + 1)

\* lines 106-119: pop one identifier, skip it if already included, otherwise
\* include it and append its similar books that are not included yet
TraverseIter(queue, included, network) ==
    LET current_book_id == Head(queue)
        rest == Tail(queue)
    IN  IF current_book_id \in included
        THEN [queue |-> rest, included |-> included]
        ELSE LET inc == MarkIncluded(included, current_book_id)
             IN  [queue |-> Enqueue(rest, Get(network, current_book_id), inc),
                  included |-> inc]

\* lines 99-119: the whole loop, from a seed list to the set it returns
RECURSIVE RunLoop(_, _, _)
RunLoop(queue, included, network) ==
    IF queue = <<>> THEN included
    ELSE LET r == TraverseIter(queue, included, network)
         IN  RunLoop(r.queue, r.included, network)

RunTraversal(seeds, network) == RunLoop(seeds, {}, network)

(***************************************************************************)
(* lines 220-234: the final integrity check.                               *)
(***************************************************************************)
RECURSIVE CountInvalid(_, _, _)
CountInvalid(S, network, included) ==
    IF S = {} THEN 0
    ELSE LET x == CHOOSE y \in S : TRUE
             sim == Get(network, x)
             bad == Len(SelectSeq(sim, LAMBDA s : s \notin included))
         IN  bad + CountInvalid(S \ {x}, network, included)

(***************************************************************************)
(* Actions of extract_with_complete_similar_network.                       *)
(***************************************************************************)
ClosureInit ==
    /\ data \in [1..MaxBooks -> Records]
    /\ initial_count \in 0..MaxBooks
    /\ books_by_id = EmptyMap
    /\ similar_book_network = EmptyMap
    /\ invalid_references_removed = 0
    /\ initial_books = <<>>
    /\ books_to_include = {}
    /\ books_to_process = <<>>
    /\ written = EmptyMap
    /\ invalid_references = 0
    /\ pc = "load"

\* a run on a file in which similar_books is not always a list
ClosureInitOtherData ==
    /\ data \in [1..MaxBooks -> Records \cup OtherRecords]
    /\ initial_count = MaxBooks
    /\ books_by_id = EmptyMap
    /\ similar_book_network = EmptyMap
    /\ invalid_references_removed = 0
    /\ initial_books = <<>>
    /\ books_to_include = {}
    /\ books_to_process = <<>>
    /\ written = EmptyMap
    /\ invalid_references = 0
    /\ pc = "load"

\* lines 42-82.  The TypeError of line 76 ends the run in the handler of
\* lines 236-239, before anything is written
BuildSimilarNetwork ==
    /\ pc = "load"
    /\ books_by_id' = BooksById(data)
    /\ IF \E id \in DOMAIN books_by_id' : LenRaises(books_by_id'[id])
       THEN /\ pc' = "error"
            /\ UNCHANGED <<similar_book_network, invalid_references_removed>>
       ELSE /\ similar_book_network' = BuildNetwork(books_by_id')
            /\ invalid_references_removed' =
                   CountRemoved(books_by_id', similar_book_network')
            /\ pc' = "select"
    /\ UNCHANGED <<data, initial_count, initial_books, books_to_include,
                   books_to_process, written, invalid_references>>
    /\ UNCHANGED <<dvars, nvars, svars, rvars, ovars>>

\* lines 84-100
SelectInitialBooks ==
    /\ pc = "select"
    /\ initial_books' = SelectInitial(data, 1, 0, initial_count)
    /\ books_to_include' = {}
    /\ books_to_process' = initial_books'
    /\ pc' = "bfs"
    /\ UNCHANGED <<data, initial_count, books_by_id, similar_book_network,
                   invalid_references_removed, written, invalid_references>>
    /\ UNCHANGED <<dvars, nvars, svars, rvars, ovars>>

\* lines 105-119: one iteration of `while books_to_process`
TraverseStep ==
    /\ pc = "bfs"
    /\ books_to_process # <<>>
    /\ LET r == TraverseIter(books_to_process, books_to_include, similar_book_network)
       IN  /\ books_to_process' = r.queue
           /\ books_to_include' = r.included
    /\ Len(books_to_process') <= QueueCap
    /\ UNCHANGED <<data, initial_count, books_by_id, similar_book_network,
                   invalid_references_removed, initial_books, written,
                   invalid_references, pc>>
    /\ UNCHANGED <<dvars, nvars, svars, rvars, ovars>>

\* lines 146-217: the loop has ended; one row per included book that has a record,
\* its similar_books replaced by the repaired list
WriteCsv ==
    /\ pc = "bfs"
    /\ books_to_process = <<>>
    /\ written' = [id \in books_to_include \cap DOMAIN books_by_id |->
                      Get(similar_book_network, id)]
    /\ pc' = "verify"
    /\ UNCHANGED <<data, initial_count, books_by_id, similar_book_network,
                   invalid_references_removed, initial_books, books_to_include,
                   books_to_process, invalid_references>>
    /\ UNCHANGED <<dvars, nvars, svars, rvars, ovars>>

\* lines 220-234
VerifyIntegrity ==
    /\ pc = "verify"
    /\ invalid_references' =
           CountInvalid(books_to_include \cap DOMAIN books_by_id,
                        similar_book_network, books_to_include)
    /\ pc' = "done"
    /\ UNCHANGED <<data, initial_count, books_by_id, similar_book_network,
                   invalid_references_removed, initial_books, books_to_include,
                   books_to_process, written>>
    /\ UNCHANGED <<dvars, nvars, svars, rvars, ovars>>

ClosureNext ==
    \/ BuildSimilarNetwork
    \/ SelectInitialBooks
    \/ TraverseStep
    \/ WriteCsv
    \/ VerifyIntegrity

(***************************************************************************)
(* deduplicate_books of enhanced-book-deduplication.py: duplicates are     *)
(* rows of one title prefix that share an author and have similar cleaned  *)
(* titles.  Rows are identified by their DataFrame index, 1..NumGatedRows. *)
(***************************************************************************)
\* the edition markers of clean_title, lines 21-26: the list of
\* normalize_title without its last entry
clean_edition_patterns == SubSeq(edition_patterns, 1, Len(edition_patterns) - 1)

\* re.sub('(?i)' + pat, '', s) for a literal pat given in lower case
RECURSIVE RemoveIgnoringCaseFrom(_, _, _)
RemoveIgnoringCaseFrom(s, pat, i) ==
    IF i > Len(s) THEN <<>>
    ELSE IF OccursAt(Lower(s), pat, i)
         THEN RemoveIgnoringCaseFrom(s, pat, i + Len(pat))
         ELSE <<s[i]>> \o RemoveIgnoringCaseFrom(s, pat, i + 1)

\* for pattern in edition_patterns: title = re.sub(pattern, '', title)
RECURSIVE CleanEditionMarkersFrom(_, _)
CleanEditionMarkersFrom(s, k) ==
    IF k > Len(clean_edition_patterns) THEN s
    ELSE CleanEditionMarkersFrom(
             RemoveIgnoringCaseFrom(s, clean_edition_patterns[k], 1), k + 1)

\* clean_title, lines 7-34
clean_title(title) ==
    IF title = Missing THEN <<>>
    ELSE Lower(Strip(CollapseSpaces(PunctuationToSpace(
             CleanEditionMarkersFrom(RemoveAfterColon(RemoveParenthesized(title)), 1)))))

\* the authors cell of a row is the list of the author_id values its text
\* carries, or Missing; extract_author_id, lines 36-43, gives their frozenset
extract_author_id(author_str) ==
    IF author_str = Missing THEN {} ELSE Range(author_str)

\* title_similarity, lines 45-50, in hundredths
title_ratio_similarity(title1, title2) ==
    IF title1 = <<>> \/ title2 = <<>> THEN Frac(0, 1)
    ELSE LET r == SequenceRatio(title1, title2) IN Frac(100 * r.num, r.den)

\* similarity_threshold=85, line 52
GatedThreshold == 85

\* number of rows of the catalog given to this deduplicate_books
NumGatedRows == 3

GatedRows == 1..NumGatedRows

\* the titles, authors cells and ratings a row of the input may carry
GatedTitles ==
    { <<"D", "u", "n", "e">>,
      <<"D", "u", "n", "e", "s", " ", "(", "x", ")">>,
      <<"E", "m", "m", "a">>,
      Missing }

GatedAuthors == { Missing, <<"a1">>, <<"a2">>, <<"a1", "a2">> }

GatedRatings == {1, 2}

\* clean_title, evaluated once per distinct title of the model
CleanTitleOf == Tabulated([t \in GatedTitles |-> clean_title(t)])

\* sim >= similarity_threshold on the cleaned titles, evaluated once per pair
GatedSimilar ==
    LET N == {CleanTitleOf[t] : t \in GatedTitles}
    IN  Tabulated([p \in N \X N |->
            FracGE(title_ratio_similarity(p[1], p[2]), Frac(GatedThreshold, 1))])

\* x[:2] if x and len(x) >= 2 else '', line 82
title_prefix(x) == IF Len(x) >= 2 THEN SubSeq(x, 1, 2) ELSE <<>>

\* order of the characters of a cleaned title: the space, then CodeOrder
PrefixCode(c) == IF c = " " THEN 0 ELSE CodeOf(c)

PrefixLess(p, q) ==
    \/ PrefixCode(p[1]) < PrefixCode(q[1])
    \/ PrefixCode(p[1]) = PrefixCode(q[1]) /\ PrefixCode(p[2]) < PrefixCode(q[2])

\* sorted([p for p in df['title_prefix'].unique() if p]), line 92
RECURSIVE SortedPrefixes(_)
SortedPrefixes(P) ==
    IF P = {} THEN <<>>
    ELSE LET first == CHOOSE p \in P : \A q \in P \ {p} : PrefixLess(p, q)
         IN  <<first>> \o SortedPrefixes(P \ {first})

\* lines 112-120: the rows after position i that share an author with row
\* idx1 and whose cleaned title is similar to its own
GatedCurrentGroup(i, prefix_group, frame) ==
    LET idx1 == prefix_group[i]
        matches(idx2) ==
            /\ frame[idx1].author_ids \cap frame[idx2].author_ids # {}
            /\ GatedSimilar[<<frame[idx1].clean_title, frame[idx2].clean_title>>]
    IN  <<idx1>> \o SelectSeq(Slice(prefix_group, i + 1, Len(prefix_group)), matches)

\* lines 103-123: the groups of one prefix, from position i on
RECURSIVE GroupDuplicatesFrom(_, _, _, _)
GroupDuplicatesFrom(i, prefix_group, frame, group_duplicates) ==
    IF i > Len(prefix_group) THEN group_duplicates
    ELSE IF InAnyGroup(prefix_group[i], group_duplicates)
         THEN GroupDuplicatesFrom(i + 1, prefix_group, frame, group_duplicates)
         ELSE LET current_group == GatedCurrentGroup(i, prefix_group, frame)
              IN  GroupDuplicatesFrom(i + 1, prefix_group, frame,
                      IF Len(current_group) > 1
                      THEN Append(group_duplicates, current_group)
                      ELSE group_duplicates)

\* lines 95-126: the groups of every prefix, in the order of the prefixes
RECURSIVE GatedGroupsOf(_, _)
GatedGroupsOf(prefixes, frame) ==
    IF prefixes = <<>> THEN <<>>
    ELSE LET prefix_group ==
                 SortedIndices({r \in DOMAIN frame : frame[r].title_prefix = prefixes[1]})
         IN  (IF Len(prefix_group) <= 1 THEN <<>>
              ELSE GroupDuplicatesFrom(1, prefix_group, frame, <<>>))
             \o GatedGroupsOf(Tail(prefixes), frame)

\* group_df['ratings_count'].idxmax(), line 145: the first row of the group
\* with the highest ratings_count
GatedIdxMax(group, frame) ==
    LET best == Max({frame[group[k]].ratings_count : k \in 1..Len(group)})
    IN  group[Min({k \in 1..Len(group) : frame[group[k]].ratings_count = best})]

\* lines 137-159: one row per group, and every row outside the groups
GatedIndicesToKeep(groups, frame, by_ratings) ==
    {IF by_ratings THEN GatedIdxMax(groups[g], frame) ELSE groups[g][1] :
        g \in 1..Len(groups)}
    \cup {idx \in DOMAIN frame : ~InAnyGroup(idx, groups)}

GatedIdle ==
    /\ gated_df = <<>>
    /\ prefer_popular = FALSE
    /\ duplicate_groups = <<>>
    /\ gated_indices_to_keep = {}
    /\ removed_count = 0
    /\ gpc = "off"

\* lines 68-69 and 189-197: the catalog is loaded, the arguments are given
GatedInit ==
    /\ gated_df \in [GatedRows -> [title_without_series : GatedTitles,
                                    authors : GatedAuthors,
                                    ratings_count : GatedRatings]]
    /\ prefer_popular \in BOOLEAN
    /\ duplicate_groups = <<>>
    /\ gated_indices_to_keep = {}
    /\ removed_count = 0
    /\ gpc = "clean"

\* lines 75-82: the columns clean_title, author_ids and title_prefix
CleanTitles ==
    /\ gpc = "clean"
    /\ gated_df' =
           [r \in DOMAIN gated_df |->
               [title_without_series |-> gated_df[r].title_without_series,
                authors |-> gated_df[r].authors,
                ratings_count |-> gated_df[r].ratings_count,
                clean_title |-> CleanTitleOf[gated_df[r].title_without_series],
                author_ids |-> extract_author_id(gated_df[r].authors),
                title_prefix |->
                    title_prefix(CleanTitleOf[gated_df[r].title_without_series])]]
    /\ gpc' = "group"
    /\ UNCHANGED <<prefer_popular, duplicate_groups, gated_indices_to_keep, removed_count>>
    /\ UNCHANGED <<basevars, mvars, uvars, wvars>>

\* lines 86-126: the duplicate groups of every prefix
FindDuplicateGroups ==
    /\ gpc = "group"
    /\ duplicate_groups' =
           GatedGroupsOf(
               SortedPrefixes({gated_df[r].title_prefix : r \in DOMAIN gated_df} \ {<<>>}),
               gated_df)
    /\ gpc' = "remove"
    /\ UNCHANGED <<gated_df, prefer_popular, gated_indices_to_keep, removed_count>>
    /\ UNCHANGED <<basevars, mvars, uvars, wvars>>

\* lines 137-173: the rows kept and the count of the rows removed
RemoveGatedDuplicates ==
    /\ gpc = "remove"
    /\ gated_indices_to_keep' =
           GatedIndicesToKeep(duplicate_groups, gated_df, prefer_popular)
    /\ removed_count' = Len(gated_df) - Cardinality(gated_indices_to_keep')
    /\ gpc' = "done"
    /\ UNCHANGED <<gated_df, prefer_popular, duplicate_groups>>
    /\ UNCHANGED <<basevars, mvars, uvars, wvars>>

GatedNext == CleanTitles \/ FindDuplicateGroups \/ RemoveGatedDuplicates

(***************************************************************************)
(* merge_book_csvs and verify_references, merge_books_script.py.  A book   *)
(* is keyed by str(book_id); a reference is an element of the parsed       *)
(* similar_books list, a string or an integer.                             *)
(***************************************************************************)
\* number of distinct book identifiers of the genre files and their references
NumMergeIds == 3

\* the number of books of the initial set (50000 at line 158), scaled to the model
InitialBooksCount == 1

\* str(row['book_id']) for the book_id n
MergeKey(n) == StrId(<<DigitChar(n)>>)

\* whether json.loads gives a list for the text
IsJsonArray(value) ==
    /\ value # <<>>
    /\ value[1] = "[" /\ value[Len(value)] = "]"
    /\ JsonArrayLoads(value)

\* parse_similar_books of load_books_from_csv, lines 29-47 (verify_references
\* parses the same way, lines 238-255): json.loads, then json.loads with the
\* single quotes made double, then the pieces of the comma-separated text
merge_parse_similar_books(value) ==
    IF value = Missing \/ value = <<"[", "]">> \/ value = <<>> THEN <<>>
    ELSE IF IsJsonArray(value) THEN json_loads(value)
    ELSE LET quoted == ReplaceChar(value, "'", <<"\"">>)
         IN  IF IsJsonArray(quoted) THEN json_loads(quoted)
             ELSE LET bare == ReplaceChar(ReplaceChar(StripBrackets(quoted),
                                                      "\"", <<>>), "'", <<>>)
                      pieces == SplitOn(bare, ",", 1, <<>>)
                      kept == SelectSeq(pieces, LAMBDA piece : Strip(piece) # <<>>)
                  IN  [k \in 1..Len(kept) |-> StrId(Strip(kept[k]))]

\* json.dumps of a list of strings and integers, line 206
json_dumps(ids) ==
    LET element(id) == IF id.kind = "str" THEN <<"\"">> \o id.text \o <<"\"">>
                       ELSE id.text
    IN  <<"[">>
        \o Concat([k \in 1..Len(ids) |->
                      IF k = 1 THEN element(ids[k]) ELSE <<",", " ">> \o element(ids[k])])
        \o <<"]">>

\* the similar_books cells of the genre files: missing, JSON arrays of
\* strings and of a number, an array in single quotes, a comma-separated text
MergeCells ==
    { Missing,
      <<"[", "\"", "2", "\"", "]">>,
      <<"[", "\"", "1", "\"", ",", " ", "\"", "2", "\"", "]">>,
      <<"[", "2", "]">>,
      <<"[", "'", "3", "'", "]">>,
      <<"1", ",", "3">> }

MergeRows == [book_id : 1..NumMergeIds, similar_books : MergeCells]

\* the rows of every file in the order they are processed (lines 76-96), each
\* with its parsed similar_books (line 49) and the genre of its file (line 59)
AllRows(files) ==
    Concat([f \in 1..Len(files) |->
               [r \in 1..Len(files[f]) |->
                   [book_id |-> files[f][r].book_id,
                    similar_books |-> merge_parse_similar_books(files[f][r].similar_books),
                    genre |-> f]]])

\* lines 96-123: the books all_books can hold once every row is processed.
\* The first row of a book_id gives the book; every later row of the same
\* book_id adds its genre and replaces similar_books by list(set(...)) of the
\* two lists, whose order is any order of the set
MergedBooks(files) ==
    LET rows == AllRows(files)
        keys == {MergeKey(rows[i].book_id) : i \in 1..Len(rows)}
        rows_of(key) == SelectSeq(rows, LAMBDA row : MergeKey(row.book_id) = key)
        lists_of(key) ==
            IF Len(rows_of(key)) = 1 THEN {rows_of(key)[1].similar_books}
            ELSE Orderings(UNION {Range(rows_of(key)[k].similar_books) :
                                      k \in 1..Len(rows_of(key))})
    IN  { merged \in [keys -> [similar_books : UNION {lists_of(key) : key \in keys},
                              genres : SUBSET (1..Len(files))]] :
            \A key \in keys :
                /\ merged[key].similar_books \in lists_of(key)
                /\ merged[key].genres = {rows_of(key)[k].genre : k \in 1..Len(rows_of(key))} }

\* lines 140-149: book_references of the books that have references
BookReferences(merged) ==
    [key \in {k \in DOMAIN merged : merged[k].similar_books # <<>>} |->
        Range(merged[key].similar_books)]

\* book_references.get(book_id, set()), line 167, and the test of line 182
ReferencesOf(references, book_id) ==
    IF book_id \in DOMAIN references THEN references[book_id] ELSE {}

\* lines 157-158: the first books of list(all_book_ids), in the order of the
\* set, which is any order
InitialBooks(merged) ==
    {chosen \in SUBSET DOMAIN merged :
        Cardinality(chosen) = Min({InitialBooksCount, Cardinality(DOMAIN merged)})}

\* lines 193-206: the books of books_to_include that all_books holds, each
\* with its similar_books dumped
SelectedBooks(merged, included) ==
    [key \in included \cap DOMAIN merged |-> json_dumps(merged[key].similar_books)]

\* lines 233-261: the references of the file, each counted once per mention
ReferencesChecked(csv) ==
    [key \in DOMAIN csv |-> merge_parse_similar_books(csv[key])]

\* lines 258-261: the references whose identifier is not a book_id of the file
MissingIn(csv, similar_books) ==
    Len(SelectSeq(similar_books, LAMBDA similar_id : similar_id \notin DOMAIN csv))

RECURSIVE SumOverKeys(_, _)
SumOverKeys(count, keys) ==
    IF keys = {} THEN 0
    ELSE LET key == CHOOSE k \in keys : TRUE
         IN  count[key] + SumOverKeys(count, keys \ {key})

MergeIdle ==
    /\ genre_files = <<>>
    /\ all_books = EmptyMap
    /\ book_references = EmptyMap
    /\ merge_books_to_include = {}
    /\ pending_references = {}
    /\ merged_csv = EmptyMap
    /\ missing_references = 0
    /\ total_references = 0
    /\ mpc = "off"

\* the genre files found: a file of two rows and a file of one row
MergeInit ==
    /\ genre_files \in [1..2 -> MergeRows] \X [1..1 -> MergeRows]
    /\ all_books = EmptyMap
    /\ book_references = EmptyMap
    /\ merge_books_to_include = {}
    /\ pending_references = {}
    /\ merged_csv = EmptyMap
    /\ missing_references = 0
    /\ total_references = 0
    /\ mpc = "merge"

\* lines 73-133: every row of every file is merged into all_books
MergeFiles ==
    /\ mpc = "merge"
    /\ all_books' \in MergedBooks(genre_files)
    /\ mpc' = "network"
    /\ UNCHANGED <<genre_files, book_references, merge_books_to_include,
                   pending_references, merged_csv, missing_references, total_references>>
    /\ UNCHANGED <<basevars, gvars, uvars, wvars>>

\* lines 140-168: the reference network, the initial books and their references
BuildReferenceNetwork ==
    /\ mpc = "network"
    /\ book_references' = BookReferences(all_books)
    /\ \E initial \in InitialBooks(all_books) :
           /\ merge_books_to_include' = initial
           /\ pending_references' =
                  UNION {ReferencesOf(book_references', book_id) \ initial :
                             book_id \in initial}
    /\ mpc' = "expand"
    /\ UNCHANGED <<genre_files, all_books, merged_csv, missing_references, total_references>>
    /\ UNCHANGED <<basevars, gvars, uvars, wvars>>

\* lines 172-186: one iteration of the while loop
ExpandReferences ==
    /\ mpc = "expand"
    /\ pending_references # {}
    /\ merge_books_to_include' = merge_books_to_include \cup pending_references
    /\ pending_references' =
           UNION {ReferencesOf(book_references, book_id) \ merge_books_to_include' :
                      book_id \in pending_references}
    /\ UNCHANGED <<genre_files, all_books, book_references, merged_csv,
                   missing_references, total_references, mpc>>
    /\ UNCHANGED <<basevars, gvars, uvars, wvars>>

\* lines 193-210: the loop has ended, the selected books are saved
SaveMerged ==
    /\ mpc = "expand"
    /\ pending_references = {}
    /\ merged_csv' = SelectedBooks(all_books, merge_books_to_include)
    /\ mpc' = "verify"
    /\ UNCHANGED <<genre_files, all_books, book_references, merge_books_to_include,
                   pending_references, missing_references, total_references>>
    /\ UNCHANGED <<basevars, gvars, uvars, wvars>>

\* verify_references, lines 216-267, called at line 214
VerifyReferences ==
    /\ mpc = "verify"
    /\ \E checked \in {ReferencesChecked(merged_csv)} :
           /\ total_references' =
                  SumOverKeys([key \in DOMAIN checked |-> Len(checked[key])],
                              DOMAIN checked)
           /\ missing_references' =
                  SumOverKeys([key \in DOMAIN checked |-> MissingIn(merged_csv, checked[key])],
                              DOMAIN checked)
    /\ mpc' = "done"
    /\ UNCHANGED <<genre_files, all_books, book_references, merge_books_to_include,
                   pending_references, merged_csv>>
    /\ UNCHANGED <<basevars, gvars, uvars, wvars>>

MergeNext ==
    \/ MergeFiles
    \/ BuildReferenceNetwork
    \/ ExpandReferences
    \/ SaveMerged
    \/ VerifyReferences

(***************************************************************************)
(* recommend_for_user, recommendation-system.py lines 379-437              *)
(* (generate_recommendations_for_user of recommender_evaluation.py, lines  *)
(* 251-274, combines the rankings in the same way).  The rankings that     *)
(* get_recommendations gives for the books of the user are the inputs.     *)
(***************************************************************************)
\* number of books of the catalog the rankings are made of
NumCandidates == 4

\* most rows of one ranking
MaxRanking == 2

\* the book_id of the books the user likes, in the order of liked_books
user_book_ids == <<1, 2>>

\* the final_score values of the model, in hundredths
Scores == {50, 60}

\* what get_recommendations can give for a book: rows of other books, no book
\* twice, by final_score descending
RankingsFor(book_id) ==
    {ranking \in SeqsUpTo([book_id : (1..NumCandidates) \ {book_id}, final_score : Scores],
                          MaxRanking) :
        /\ \A a, b \in 1..Len(ranking) :
               a < b => /\ ranking[a].book_id # ranking[b].book_id
                        /\ ranking[a].final_score >= ranking[b].final_score}

\* lines 411-416 and 421: pd.concat of the rankings that have rows
all_recommendations(recs) ==
    Concat([k \in 1..Len(recs) |-> recs[k]])

\* lines 424-425: the rows whose book_id is not a book of the user
NotLiked(rows) ==
    SelectSeq(rows, LAMBDA row : \A k \in 1..Len(user_book_ids) :
                                     row.book_id # user_book_ids[k])

\* drop_duplicates(subset=['book_id']), line 428: the first row of each book_id
RECURSIVE drop_duplicates(_)
drop_duplicates(rows) ==
    IF rows = <<>> THEN <<>>
    ELSE LET front == drop_duplicates(Slice(rows, 1, Len(rows) - 1))
             last == rows[Len(rows)]
         IN  IF \E k \in 1..Len(front) : front[k].book_id = last.book_id
             THEN front ELSE Append(front, last)

\* Counter(combined_recommendations['book_id'])[x], line 431: the rows of the
\* frame that carry the book_id
book_counts(rows, x) == Len(SelectSeq(rows, LAMBDA row : row.book_id = x))

\* lines 428-432: the duplicates are dropped, then every row left is given
\* the count of its book_id among the rows left
WithFrequency(rows) ==
    LET kept == drop_duplicates(rows)
    IN  [k \in 1..Len(kept) |->
            [book_id |-> kept[k].book_id, final_score |-> kept[k].final_score,
             frequency |-> book_counts(kept, kept[k].book_id)]]

\* sort_values(['frequency', 'final_score'], ascending=[False, False]), line
\* 435: the orders the sort can give, rows equal on both keys in any order
SortedByFrequency(rows) ==
    {[k \in 1..Len(rows) |-> rows[q[k]]] : q \in
        {q \in Orderings(1..Len(rows)) :
            \A a, b \in 1..Len(rows) :
                a < b => \/ rows[q[a]].frequency > rows[q[b]].frequency
                         \/ /\ rows[q[a]].frequency = rows[q[b]].frequency
                            /\ rows[q[a]].final_score >= rows[q[b]].final_score}}

UserIdle ==
    /\ book_recs = <<>>
    /\ user_num_recommendations = 0
    /\ result = <<>>
    /\ upc = "off"

\* the books of the user are found and get_recommendations has answered for each
UserInit ==
    /\ book_recs \in {recs \in [1..Len(user_book_ids) -> UNION {RankingsFor(user_book_ids[k]) :
                                                        k \in 1..Len(user_book_ids)}] :
                         \A k \in 1..Len(user_book_ids) :
                             recs[k] \in RankingsFor(user_book_ids[k])}
    /\ user_num_recommendations \in {1, 2, 10}
    /\ result = <<>>
    /\ upc = "call"

\* lines 417-437: the rankings are combined, counted, sorted and cut
RecommendForUser ==
    /\ upc = "call"
    /\ IF all_recommendations(book_recs) = <<>>
       THEN result' = <<>>
       ELSE \E sorted \in SortedByFrequency(WithFrequency(NotLiked(
                              all_recommendations(book_recs)))) :
                result' = head(sorted, user_num_recommendations)
    /\ upc' = "done"
    /\ UNCHANGED <<book_recs, user_num_recommendations>>
    /\ UNCHANGED <<basevars, gvars, mvars, wvars>>

UserNext == RecommendForUser

(***************************************************************************)
(* server.py: the recommender built when the module is loaded (lines       *)
(* 15-20) and the handler of /api/recommend (lines 22-119), which the      *)
(* threads of the server run for several requests at once.  A request      *)
(* reads self.df at the lookup, and self.df, book_id_mapping and           *)
(* text_matrix when it scores the candidates.                              *)
(***************************************************************************)
\* the requests served at the same time
RequestSlots == {"first", "second"}

\* the book_titles parameter: none, a title of the catalog, a title of no
\* book, a title with an opening parenthesis
ServedTitles ==
    { <<>>,
      <<"d", "u", "n", "e">>,
      <<"z", "z", "z">>,
      <<"d", "u", "n", "e", " ", "(">> }

\* the rows the catalog of the server is made of
ServedRows ==
    {row \in CatalogRows :
        \/ row.title_without_series = <<"D", "u", "n", "e">>
        \/ row.title_without_series = <<"D", "u", "n", "e", " ", "I", "I">> /\ row.authors = {"a1"}
        \/ row.title_without_series = <<"E", "m", "m", "a">>}

\* the similar_books cell of the first row of the catalog of the server: the
\* second row, as a JSON number
ServedCells == {<<"[", "2", "]">>}

\* num, default 5 (lines 40 and 46)
DefaultNum == 5

\* re.compile raises re.error for a pattern with a parenthesis or a bracket
\* that is not closed
RegexError(pattern) ==
    \E i \in 1..Len(pattern) :
        \/ pattern[i] = "(" /\ \A j \in (i+1)..Len(pattern) : pattern[j] # ")"
        \/ pattern[i] = "[" /\ \A j \in (i+1)..Len(pattern) : pattern[j] # "]"

\* line 263: str.lower().str.contains(title.lower()) on the rows, for a
\* pattern of letters, digits and spaces, which matches where it occurs
TitleMatches(rows, title) ==
    {i \in 1..Len(rows) : Contains(Lower(rows[i].title_without_series), Lower(title))}

\* line 271: sort_values("ratings_count", ascending=False).iloc[0]; the sort
\* puts any of the matches with the highest ratings_count first
MostPopular(rows, matches) ==
    {i \in matches : \A j \in matches : rows[i].ratings_count >= rows[j].ratings_count}

\* lines 328-393: filtered_df with its scores
ScoredFrame(rows, lists, mapping, matrix, book_idx) ==
    [i \in FilteredIndices(rows, book_idx) |->
        ScoredRow(rows, lists, mapping, matrix, book_idx, i)]

\* the answers of the handler: the status and, for a status of 500, the
\* exception caught at lines 111-114; for a status of 200, the rows listed
Answer(status, error, rows) == [status |-> status, error |-> error, rows |-> rows]

NoAnswer == Answer(0, "", <<>>)

\* lines 49-52
BadRequest == Answer(400, "", <<>>)

\* lines 73-79
NotFound == Answer(404, "", <<>>)

\* lines 111-114
InternalError(exception) == Answer(500, exception, <<>>)

\* lines 396 and 73-109: the rows sorted by final_score, cut to num, listed;
\* no row gives the answer of lines 73-79
Listed(scored, num) ==
    {IF order = <<>> \/ num = 0 THEN NotFound ELSE Answer(200, "", head(order, num)) :
        order \in SortedOrders([i \in DOMAIN scored |-> scored[i].final_score])}

\* lines 359-366: cosine_similarity raises ValueError on no row
ScoringRaises(rows, book_idx) ==
    rows[book_idx].clean_description # "" /\ FilteredIndices(rows, book_idx) = {}

\* the answers the handler gives to a request that no other request overlaps
AnswersAlone(request) ==
    IF request.book_titles = <<>> THEN {BadRequest}
    ELSE IF request.is_multiple # 0 THEN {InternalError("AttributeError")}
    ELSE IF RegexError(Lower(request.book_titles)) THEN {InternalError("re.error")}
    ELSE IF TitleMatches(books, request.book_titles) = {} THEN {NotFound}
    ELSE UNION {IF ScoringRaises(books, book_idx) THEN {InternalError("ValueError")}
                ELSE Listed(ScoredFrame(books, similar_books_list, book_id_mapping,
                                        text_matrix, book_idx),
                            request.num_recommendations) :
                   book_idx \in MostPopular(books, TitleMatches(books, request.book_titles))}

\* a slot that serves no request
IdleRequest ==
    [pos |-> "idle", book_titles |-> <<>>, is_multiple |-> 0, num_recommendations |-> 0,
     overlaps |-> FALSE, book_idx |-> 0, response |-> NoAnswer]

ServerIdle == requests = [slot \in RequestSlots |-> IdleRequest]

\* lines 15-20: the catalog is loaded and the vectors are built
ServerInit ==
    /\ books \in [1..NumBooks -> ServedRows]
    /\ \E cell \in ServedCells :
           similar_books_list =
               [i \in 1..NumBooks |-> ParsedCells[IF i = 1 THEN cell ELSE Missing]]
    /\ book_id_mapping = BookIdMapping({BookIdOf(i) : i \in 1..NumBooks})
    /\ \E vocabulary \in Vocabularies : text_matrix = Embeddings(books, vocabulary)
    /\ sort_outcomes = {}
    /\ requested_book_id = IntId(<<>>)
    /\ num_recommendations = 0
    /\ recommendations = NoCall
    /\ earlier_recommendations = NoCall
    /\ ServerIdle

\* what the steps of a request leave alone
ServerFrame ==
    /\ UNCHANGED <<books, similar_books_list, book_id_mapping, sort_outcomes,
                   requested_book_id, num_recommendations, recommendations,
                   earlier_recommendations>>
    /\ UNCHANGED <<cvars, dvars, nvars, svars, gvars, mvars, uvars>>

\* lines 34-57: a request comes in; without book_titles it is answered at once
ReceiveRequest(slot) ==
    /\ requests[slot].pos = "idle"
    /\ \E titles \in ServedTitles, multiple \in {0, 1} :
           requests' =
               [requests EXCEPT ![slot] =
                   [IdleRequest EXCEPT
                       !.book_titles = titles,
                       !.is_multiple = multiple,
                       !.num_recommendations = DefaultNum,
                       !.overlaps = \E other \in RequestSlots \ {slot} :
                                        requests[other].pos \in {"lookup", "score"},
                       !.pos = IF titles = <<>> THEN "done" ELSE "lookup",
                       !.response = IF titles = <<>> THEN BadRequest ELSE NoAnswer]]
    /\ UNCHANGED text_matrix
    /\ ServerFrame

\* lines 60-70 and get_recommendations lines 280-298: the multiple-title
\* path calls recommend_from_comma_separated_titles, which the recommender
\* does not have (AttributeError); the single-title path builds the vectors
\* when there are none and looks the source up by its title
LookUpSource(slot) ==
    /\ requests[slot].pos = "lookup"
    /\ IF requests[slot].is_multiple # 0
       THEN /\ requests' = [requests EXCEPT
                               ![slot].pos = "done",
                               ![slot].response = InternalError("AttributeError")]
            /\ UNCHANGED text_matrix
       ELSE /\ text_matrix' \in IF NeedsEmbeddings(text_matrix)
                              THEN {Embeddings(books, vocabulary) :
                                        vocabulary \in Vocabularies}
                              ELSE {text_matrix}
            /\ IF RegexError(Lower(requests[slot].book_titles))
               THEN requests' = [requests EXCEPT
                                    ![slot].pos = "done",
                                    ![slot].response = InternalError("re.error")]
               ELSE IF TitleMatches(books, requests[slot].book_titles) = {}
               THEN requests' = [requests EXCEPT
                                    ![slot].pos = "done",
                                    ![slot].response = NotFound]
               ELSE \E found \in MostPopular(books,
                                     TitleMatches(books, requests[slot].book_titles)) :
                        requests' = [requests EXCEPT
                                        ![slot].pos = "score",
                                        ![slot].book_idx = found]
    /\ ServerFrame

\* get_recommendations lines 300-431 and the handler's lines 73-109: the
\* candidates are filtered and scored, the rows are sorted, cut and listed
SendRecommendations(slot) ==
    /\ requests[slot].pos = "score"
    /\ IF ScoringRaises(books, requests[slot].book_idx)
       THEN requests' = [requests EXCEPT
                            ![slot].pos = "done",
                            ![slot].response = InternalError("ValueError")]
       ELSE \E answer \in Listed(ScoredFrame(books, similar_books_list, book_id_mapping,
                                            text_matrix, requests[slot].book_idx),
                                requests[slot].num_recommendations) :
                requests' = [requests EXCEPT
                                ![slot].pos = "done",
                                ![slot].response = answer]
    /\ UNCHANGED text_matrix
    /\ ServerFrame

ServerNext ==
    \E slot \in RequestSlots :
        \/ ReceiveRequest(slot)
        \/ LookUpSource(slot)
        \/ SendRecommendations(slot)

\* the components modelled after the first five are not running
OthersIdle == GatedIdle /\ MergeIdle /\ UserIdle /\ ServerIdle

\* a run of extract_with_complete_similar_network
Init ==
    ClosureInit /\ DedupIdle /\ NormalizeIdle /\ SimilarityIdle /\ RecommenderIdle /\ OthersIdle

Next == ClosureNext

Spec == Init /\ [][Next]_vars

\* the script runs to completion: no step that can be taken is postponed forever
FairSpec == Spec /\ WF_vars(Next)

\* a run of deduplicate_books
InitDedup ==
    DedupInit /\ ClosureIdle /\ NormalizeIdle /\ SimilarityIdle /\ RecommenderIdle /\ OthersIdle

SpecDedup == InitDedup /\ [][DedupNext]_vars

\* a run of extract_with_complete_similar_network on any similar_books values
InitOtherData ==
    /\ ClosureInitOtherData
    /\ DedupIdle /\ NormalizeIdle /\ SimilarityIdle /\ RecommenderIdle /\ OthersIdle

SpecOtherData == InitOtherData /\ [][Next]_vars

\* a run of deduplicate_books on a catalog of any column layout
InitDedupLayouts ==
    /\ DedupInitLayouts
    /\ ClosureIdle /\ NormalizeIdle /\ SimilarityIdle /\ RecommenderIdle /\ OthersIdle

SpecDedupLayouts == InitDedupLayouts /\ [][DedupNext]_vars

\* a run of deduplicate_books on a catalog of one letter group
InitDedupBlock ==
    /\ DedupInitBlock
    /\ ClosureIdle /\ NormalizeIdle /\ SimilarityIdle /\ RecommenderIdle /\ OthersIdle

SpecDedupBlock == InitDedupBlock /\ [][DedupNext]_vars

\* a run of deduplicate_books on a catalog with rows without a normalized title
InitDedupUntitled ==
    /\ DedupInitUntitled
    /\ ClosureIdle /\ NormalizeIdle /\ SimilarityIdle /\ RecommenderIdle /\ OthersIdle

SpecDedupUntitled == InitDedupUntitled /\ [][DedupNext]_vars

\* normalize_title called on a title and on its result
InitNormalize ==
    NormalizeInit /\ ClosureIdle /\ DedupIdle /\ SimilarityIdle /\ RecommenderIdle /\ OthersIdle

SpecNormalize == InitNormalize /\ [][NormalizeNext]_vars

\* title_similarity called on a pair of normalized titles, both ways round
InitSimilarity ==
    SimilarityInit /\ ClosureIdle /\ DedupIdle /\ NormalizeIdle /\ RecommenderIdle /\ OthersIdle

SpecSimilarity == InitSimilarity /\ [][SimilarityNext]_vars

\* requests to a recommender that has loaded its catalog
InitRanking ==
    RecommenderInit /\ ClosureIdle /\ DedupIdle /\ NormalizeIdle /\ SimilarityIdle /\ OthersIdle

SpecRanking == InitRanking /\ [][RecommenderNext]_vars

\* a run of deduplicate_books of enhanced-book-deduplication.py
InitGated ==
    /\ GatedInit
    /\ ClosureIdle /\ DedupIdle /\ NormalizeIdle /\ SimilarityIdle /\ RecommenderIdle
    /\ MergeIdle /\ UserIdle /\ ServerIdle

SpecGated == InitGated /\ [][GatedNext]_vars

\* a run of merge_book_csvs
InitMerge ==
    /\ MergeInit
    /\ ClosureIdle /\ DedupIdle /\ NormalizeIdle /\ SimilarityIdle /\ RecommenderIdle
    /\ GatedIdle /\ UserIdle /\ ServerIdle

SpecMerge == InitMerge /\ [][MergeNext]_vars

\* a call of recommend_for_user
InitUser ==
    /\ UserInit
    /\ ClosureIdle /\ DedupIdle /\ NormalizeIdle /\ SimilarityIdle /\ RecommenderIdle
    /\ GatedIdle /\ MergeIdle /\ ServerIdle

SpecUser == InitUser /\ [][UserNext]_vars

\* requests to the server, served at the same time
InitServer ==
    /\ ServerInit
    /\ ClosureIdle /\ DedupIdle /\ NormalizeIdle /\ SimilarityIdle
    /\ GatedIdle /\ MergeIdle /\ UserIdle

SpecServer == InitServer /\ [][ServerNext]_vars

(***************************************************************************)
(* Properties of the closure (extract_with_complete_similar_network).      *)
(***************************************************************************)
LoopEnded == pc \in {"verify", "done"}

Seeds == Range(initial_books)

\* T is closed under the edges of the repaired network
EdgeClosed(T, network) ==
    \A x \in T : \A y \in Range(Get(network, x)) : y \in T

RECURSIVE ReachableFrom(_, _)
ReachableFrom(S, network) ==
    LET n == S \cup UNION {Range(Get(network, x)) : x \in S}
    IN  IF n = S THEN S ELSE ReachableFrom(n, network)

C4_Terminates == <>(pc = "done" /\ books_to_process = <<>>)

\* C4 witness: a run that ended on a network with a cycle through an included
\* book (a self-reference or a two-book cycle).
C4_Witness ==
    /\ pc = "done"
    /\ \E x \in books_to_include :
           \E y \in Range(Get(similar_book_network, x)) :
               x \in Range(Get(similar_book_network, y))

\* C5: after the repair no reference list of the network, and no reference list
\* of a written row, holds an identifier that is absent from the catalog.
C5_NoDanglingEdges ==
    /\ pc # "load" =>
           \A id \in DOMAIN similar_book_network :
               Range(similar_book_network[id]) \subseteq DOMAIN books_by_id
    /\ \A id \in DOMAIN written : Range(written[id]) \subseteq DOMAIN books_by_id

\* C5 witness: a row was written for a book whose raw list held an identifier
\* absent from the catalog.
C5_Witness ==
    /\ pc = "done"
    /\ invalid_references_removed > 0
    /\ \E id \in DOMAIN written :
           ~(Range(books_by_id[id].similar_books) \subseteq DOMAIN books_by_id)

\* C10 as stated: after the repair no reference list holds the book's own
\* identifier.
C10_NoSelfLoops ==
    pc # "load" =>
        \A id \in DOMAIN similar_book_network : id \notin Range(similar_book_network[id])

\* C10 amended: the repair keeps a self-reference exactly when the raw list of
\* the (catalog) book holds it; the traversal is unaffected by it: the closure
\* of seeds whose only remaining edges are self-references is the seed set.
C10_SelfLoopsKeptAndIgnored ==
    /\ pc # "load" =>
           \A id \in DOMAIN similar_book_network :
               id \in Range(similar_book_network[id])
                   <=> id \in Range(books_by_id[id].similar_books)
    /\ (LoopEnded /\ \A s \in Seeds : Range(Get(similar_book_network, s)) \subseteq {s})
           => books_to_include = Seeds

\* C10 witness: a finished run whose seed references itself in the repaired
\* network and whose closure is that seed alone.
C10_Witness ==
    /\ pc = "done"
    /\ \E s \in Seeds :
           /\ s \in Range(Get(similar_book_network, s))
           /\ books_to_include = {s}


(***************************************************************************)
(* Properties of deduplicate_books.  A cluster is a group of               *)
(* all_duplicate_groups; the row index is the identifier of an item, and   *)
(* the similar_books lists of the model refer to rows by that index.       *)
(***************************************************************************)
Clusters == {all_duplicate_groups[g] : g \in 1..Len(all_duplicate_groups)}

\* the rows written to the output file
WrittenRows == {deduplicated_df[k].index : k \in 1..Len(deduplicated_df)}

\* the rows of res[k] for the tasks k, i.e. the similar (fuzzy) groups
FuzzyClusters == {g \in Clusters : \A e \in 1..Len(exact_duplicate_groups) :
                                       exact_duplicate_groups[e] # g}

\* C6: every duplicate cluster, exact or fuzzy, has exactly one member among the
\* kept rows; the written rows are the kept rows, so every other member of the
\* cluster is removed.
C6_OneCanonicalPerCluster ==
    dpc = "done" =>
        /\ WrittenRows = indices_to_keep
        /\ \A g \in Clusters : Cardinality(Range(g) \cap WrittenRows) = 1

\* C6 witness: a finished run with an exact and a fuzzy cluster, one of them
\* losing a member.
C6_Witness ==
    /\ dpc = "done"
    /\ FuzzyClusters # {}
    /\ exact_duplicate_groups # <<>>
    /\ Cardinality(WrittenRows) < NumRows

CanonicalOf(i) ==
    IF \E g \in Clusters : i \in Range(g)
    THEN CHOOSE k \in indices_to_keep : \E g \in Clusters : {i, k} \subseteq Range(g)
    ELSE i

\* a reference list with every identifier replaced by its canonical identifier
\* and repeated entries collapsed (first occurrence kept)
RECURSIVE Collapse(_)
Collapse(list) ==
    IF list = <<>> THEN <<>>
    ELSE LET init == Collapse(SubSeq(list, 1, Len(list) - 1))
             last == list[Len(list)]
         IN  IF last \in Range(init) THEN init ELSE Append(init, last)

RewrittenReferences(list) == Collapse([k \in 1..Len(list) |-> CanonicalOf(list[k])])

\* C9 as stated: in the output every surviving row's similar_books list is its
\* input list with duplicates replaced by their canonical row and collapsed, so
\* no surviving row references a removed row.
C9_ReferencesRewritten ==
    dpc = "done" =>
        \A k \in 1..Len(deduplicated_df) :
            /\ deduplicated_df[k].similar_books =
                   RewrittenReferences(df[deduplicated_df[k].index].similar_books)
            /\ Range(deduplicated_df[k].similar_books) \subseteq WrittenRows

\* C11 as stated: when the configured title column is absent from the input the
\* run stops with the error before any processing: no title column is
\* substituted, nothing is normalized or clustered and nothing is written.
C11_MissingTitleColumnIsFatal ==
    DefaultTitleColumn \notin Range(columns) =>
        /\ dpc \in {"load", "error"}
        /\ title_column = DefaultTitleColumn
        /\ normalized_title = <<>>
        /\ all_duplicate_groups = <<>>
        /\ deduplicated_df = <<>>
\* the similar groups found when the letter groups are processed one after the
\* other in the order of letter_groups, by one process
RECURSIVE SequentialGroups(_)
SequentialGroups(k) ==
    IF k > Len(letter_groups) THEN <<>>
    ELSE process_letter_group(letter_groups[k].indices, normalized_title,
                              similarity_threshold)
             \o SequentialGroups(k + 1)

C13_NormalizeIdempotent ==
    npc = "done" => renormalized = normalized

\* C14 as stated: title_similarity gives a pair of normalized titles the same
\* score whichever of the two comes first.
C14_SimilaritySymmetric ==
    spc = "done" => FracEq(similarity, reverse_similarity)
\* C15 as stated: title_similarity is exactly 1.0 for two identical titles and
\* exactly 0.0 whenever one of the titles is empty, two empty titles included.
C15_IdenticalOneEmptyZero ==
    spc \in {"reverse", "done"} =>
        /\ first_title = second_title => similarity = Frac(100, 1)
        /\ (first_title = <<>> \/ second_title = <<>>) => similarity = Frac(0, 1)

\* C15 amended: exactly 0.0 whenever one of the titles is empty, two empty
\* titles included, and exactly 1.0 for two identical titles that are not empty.
C15_EmptyZeroElseIdenticalOne ==
    spc \in {"reverse", "done"} =>
        /\ (first_title = <<>> \/ second_title = <<>>) => similarity = Frac(0, 1)
        /\ (first_title = second_title /\ first_title # <<>>) =>
               similarity = Frac(100, 1)

\* C15 witness: title_similarity has been called on two empty titles.
C15_Witness ==
    /\ spc = "done"
    /\ first_title = <<>>
    /\ second_title = <<>>
    /\ similarity = Frac(0, 1)
(***************************************************************************)
(* Properties of get_recommendations.                                      *)
(***************************************************************************)
\* the call has given back a DataFrame
HasReturned == recommendations.called /\ recommendations.raised = ""

\* the rows given back, in order
Recommended == recommendations.rows

\* the source of the requests (0 when the book is unknown)
Source == find_book(books, requested_book_id)

\* the rows left after the source and its likely duplicates are taken out
Candidates == IF Source = 0 THEN {} ELSE FilteredIndices(books, Source)

\* the digits of the identifiers of the reference list of the source
ReferencedIds ==
    {similar_books_list[Source][k].text : k \in 1..Len(similar_books_list[Source])}

\* C16 as stated: the reference score of a candidate is 1.0 exactly when its
\* identifier is one of the identifiers of the parsed reference list of the
\* source, whether the list holds them as integers or as strings.
C16_ReferenceScoreIsMembership ==
    HasReturned =>
        \A k \in 1..Len(Recommended) :
            Recommended[k].similar_books_score =
                IF BookIdOf(Recommended[k].index).text \in ReferencedIds
                THEN 100 ELSE 0

C18_TiesByPopularityThenId ==
    HasReturned =>
        \A a, b \in 1..Len(Recommended) :
            a < b =>
                LET x == Recommended[a]
                    y == Recommended[b]
                    px == books[x.index].ratings_count
                    py == books[y.index].ratings_count
                IN  \/ x.final_score > y.final_score
                    \/ /\ x.final_score = y.final_score
                       /\ \/ px > py
                          \/ (px = py /\ x.index < y.index)

\* C19 as stated: for a found source the call gives back exactly
\* min(num_recommendations, n) rows, n being the number of rows left after
\* the source and its near-duplicates are taken out.
C19_ReturnsMinOfKAndCandidates ==
    (recommendations.called /\ Source # 0) =>
        /\ recommendations.raised = ""
        /\ Len(Recommended) = Min({num_recommendations, Cardinality(Candidates)})

\* C20: a call gives back what the call before it gave back for the same
\* request, the first of the calls being the one that builds the vectors or
\* not.
C20_SameRequestSameRanking ==
    earlier_recommendations.called => recommendations = earlier_recommendations

\* C20 witness: two calls have given back two rows of equal final_score each.
C20_Witness ==
    /\ earlier_recommendations.called
    /\ HasReturned
    /\ Len(Recommended) = 2
    /\ Recommended[1].final_score = Recommended[2].final_score

(***************************************************************************)
(* Properties of the frontier of the traversal.                            *)
(***************************************************************************)
\* C25 as stated: no identifier is appended to books_to_process more than
\* once.  An identifier leaves the queue only by being popped, a popped
\* identifier is in books_to_include from then on, and line 118 appends no
\* identifier of books_to_include: an identifier appended a second time is
\* therefore twice in the queue, and the claim is that the queue never holds
\* an identifier twice.
C25_NoDoubleEnqueue ==
    \A i, j \in 1..Len(books_to_process) :
        books_to_process[i] = books_to_process[j] => i = j

(***************************************************************************)
(* Properties of the parsing of similar_books.                             *)
(***************************************************************************)
\* C23 as stated: a similar_books value that is not a list (a text that is
\* not JSON, a null, a number, JSON that is not a list) never ends the run
\* early: the reference list of its record is written empty, and every
\* record of the file is written (each of them is a seed here).
C23_OtherDataDegradesToEmpty ==
    /\ pc # "error"
    /\ pc = "done" =>
           \A id \in DOMAIN books_by_id :
               /\ id \in DOMAIN written
               /\ similar_books_data(books_by_id[id]).kind # "list"
                      => written[id] = <<>>

(***************************************************************************)
(* Properties of process_letter_group.                                     *)
(***************************************************************************)
\* the tasks whose result is known
DoneTasks == IF dpc = "pool" THEN (1..Len(letter_groups)) \ pending
             ELSE 1..Len(results)

\* the position of a row in the letter group of task k
PositionIn(k, row) ==
    CHOOSE p \in 1..Len(letter_groups[k].indices) : letter_groups[k].indices[p] = row

\* the representatives of task k: the rows of its letter group that are not a
\* later member of a group, i.e. the first members and the rows left alone
Representatives(k) ==
    {row \in Range(letter_groups[k].indices) :
        \A g \in 1..Len(results[k]) : row \notin Range(Tail(results[k][g]))}

\* title_similarity(title of the representative, title of the row) reaches
\* the threshold
ReachesAgainst(representative, row) ==
    ReachesThreshold(SimilarityOf[<<normalized_title[representative],
                                    normalized_title[row]>>],
                     similarity_threshold)

\* C26: in the result of a task the members of a group come in the order of
\* the letter group; every member after the first reaches the threshold
\* against the first, and no representative placed before the first reaches
\* it against that member; a row against which no representative placed
\* before it reaches the threshold is a representative itself.
C26_GreedyRule ==
    \A k \in DoneTasks :
        /\ \A g \in 1..Len(results[k]) :
               \A p \in 2..Len(results[k][g]) :
                   LET first == results[k][g][1]
                       member == results[k][g][p]
                   IN  /\ PositionIn(k, results[k][g][p - 1]) < PositionIn(k, member)
                       /\ ReachesAgainst(first, member)
                       /\ \A r \in Representatives(k) :
                              PositionIn(k, r) < PositionIn(k, first)
                                  => ~ReachesAgainst(r, member)
        /\ \A row \in Range(letter_groups[k].indices) :
               (\A r \in Representatives(k) :
                    PositionIn(k, r) < PositionIn(k, row) => ~ReachesAgainst(r, row))
                   => row \in Representatives(k)

\* C26 witness: a member of a group reaches the threshold against its first
\* member and is also reached by a representative placed between the two,
\* which the first member does not reach.
C26_Witness ==
    \E k \in DoneTasks :
        \E g \in 1..Len(results[k]) :
            \E p \in 2..Len(results[k][g]) :
                \E r \in Representatives(k) :
                    /\ PositionIn(k, results[k][g][1]) < PositionIn(k, r)
                    /\ PositionIn(k, r) < PositionIn(k, results[k][g][p])
                    /\ ReachesAgainst(r, results[k][g][p])

(***************************************************************************)
(* Properties of the rows without a normalized title.                      *)
(***************************************************************************)
\* C28 as stated: no group holds two rows whose normalized title is empty,
\* and every such row is written to the output file.
C28_UntitledRowsKept ==
    dpc = "done" =>
        /\ \A g \in Clusters :
               \A i, j \in Range(g) :
                   (normalized_title[i] = <<>> /\ normalized_title[j] = <<>>) => i = j
        /\ \A i \in Rows : normalized_title[i] = <<>> => i \in WrittenRows

(***************************************************************************)
(* Properties of the duplicate groups of enhanced-book-deduplication.py.   *)
(***************************************************************************)
\* sum over the groups of (group size - 1)
RECURSIVE SumOfGroupSizesLessOne(_)
SumOfGroupSizesLessOne(groups) ==
    IF groups = <<>> THEN 0
    ELSE (Len(groups[1]) - 1) + SumOfGroupSizesLessOne(Tail(groups))

\* C29: the duplicate groups are pairwise disjoint, and the number of rows
\* removed is the sum over the groups of (group size - 1)
C29_GroupsDisjointAndCounted ==
    gpc = "done" =>
        /\ \A g, h \in 1..Len(duplicate_groups) :
               g # h => Range(duplicate_groups[g]) \cap Range(duplicate_groups[h]) = {}
        /\ removed_count = SumOfGroupSizesLessOne(duplicate_groups)

(***************************************************************************)
(* Properties of the merged file.                                          *)
(***************************************************************************)
\* C27: once merge_book_csvs has run, every identifier in the similar_books
\* of every written book is the book_id of a written book, and
\* verify_references has counted no missing reference
C27_ReferenceIntegrity ==
    mpc = "done" =>
        /\ \A key \in DOMAIN merged_csv :
               Range(merge_parse_similar_books(merged_csv[key])) \subseteq DOMAIN merged_csv
        /\ missing_references = 0

(***************************************************************************)
(* Properties of recommend_for_user.                                       *)
(***************************************************************************)
\* the number of books of the user whose ranking holds the candidate
SourcesRecommending(candidate) ==
    Cardinality({k \in 1..Len(book_recs) :
                     \E r \in 1..Len(book_recs[k]) : book_recs[k][r].book_id = candidate})

\* C21: the frequency of every row given back is the number of books of the
\* user whose ranking holds it, and the rows are in the order of frequency
\* descending, then final_score descending
C21_FrequencyCountsSources ==
    upc = "done" =>
        /\ \A k \in 1..Len(result) :
               result[k].frequency = SourcesRecommending(result[k].book_id)
        /\ \A a, b \in 1..Len(result) :
               a < b => \/ result[a].frequency > result[b].frequency
                        \/ /\ result[a].frequency = result[b].frequency
                           /\ result[a].final_score >= result[b].final_score

(***************************************************************************)
(* Properties of the handler of /api/recommend.                            *)
(***************************************************************************)
\* C22: no request is answered with an internal error: every answer is a
\* list of recommendations, a bad request or a not-found
C22_NoInternalError ==
    \A slot \in RequestSlots : requests[slot].response.status # 500

\* every request answered has an answer the handler gives to the request alone
AnsweredAsAlone ==
    \A slot \in RequestSlots :
        requests[slot].pos = "done" =>
            requests[slot].response \in AnswersAlone(requests[slot])

\* C24: once the vectors are built, no step of a request changes the catalog
\* rows, the parsed reference lists, the identifier mapping or the vectors,
\* and every request, whatever the steps of the other request between its own,
\* gets an answer the handler gives to the request alone
C24_RequestsLeaveSnapshotUnchanged ==
    /\ [][text_matrix # None =>
              UNCHANGED <<books, similar_books_list, book_id_mapping, text_matrix>>]_vars
    /\ []AnsweredAsAlone

\* a request that came in while the other was being served has been answered
\* with recommendations
C24_Witness ==
    \E slot \in RequestSlots :
        /\ requests[slot].pos = "done"
        /\ requests[slot].overlaps
        /\ requests[slot].response.status = 200

====
